---- MODULE Spec2Model ----
(***************************************************************************)
(* Model of the Super I/O chip emulation of RPCEmu: the parallel bus       *)
(* (parallel.c), the serial bus (serial.c), and the parallel port engine,  *)
(* the 16550A UART engine, the configuration registers and the dispatcher  *)
(* (superio.c).                                                            *)
(*                                                                         *)
(* The C functions are modelled as operators that take the whole program   *)
(* state as one record w (the "world") and return the state after the      *)
(* call, so that a handler and everything it calls make one action.        *)
(***************************************************************************)
EXTENDS Integers, Sequences, FiniteSets, TLC

VARIABLES
    super_type,     \* superio.c: static SuperIOType super_type
    configmode,     \* superio.c: static int configmode
    configreg,      \* superio.c: static uint8_t configreg
    configregs665,  \* superio.c: static uint8_t configregs665[16]
    configregs672,  \* superio.c: static uint8_t configregs672[256]
    gp_index,       \* superio.c: static int gp_index
    gp_regs,        \* superio.c: static uint8_t gp_regs[16]
    lpt,            \* superio.c: lpt1 (index 0) and lpt2 (index 1)
    com,            \* superio.c: com1 (index 0) and com2 (index 1)
    pbus,           \* parallel.c: static ParallelBusPort ports[2]
    sbus,           \* serial.c: static SerialBusPort ports[2]
    iomd,           \* the interrupt controller's status bits this code touches
    printer,        \* printer.c: output_mode, print_buffer, buffer_pos, attached_port
    calls,          \* callbacks and sibling-chip calls made by the last operation
    ret,            \* value returned by the last operation
    op,             \* the last operation and its arguments
    hist,           \* the guest writes made since power-on, while at most MaxHist
    total,          \* per port: on_write bytes and on_reset calls during hist
    ackLog          \* per port: the get_status calls since the last latched ACK

vars == <<super_type, configmode, configreg, configregs665, configregs672,
          gp_index, gp_regs, lpt, com, pbus, sbus, iomd, printer, calls, ret, op,
          hist, total, ackLog>>

(***************************************************************************)
(* Bounds of the model.                                                    *)
(***************************************************************************)
MaxHist == 3          \* length of the recorded scenario prefix
MaxAckLog == 7        \* status reads counted after a latched ACK
MaxFifoWrites == 2    \* writes to the ECP FIFO register per port

(***************************************************************************)
(* uint8_t arithmetic.                                                     *)
(***************************************************************************)
Byte == 0..255

RECURSIVE BitAnd(_, _)
BitAnd(a, b) ==
    IF a = 0 \/ b = 0 THEN 0
    ELSE (a % 2) * (b % 2) + 2 * BitAnd(a \div 2, b \div 2)

RECURSIVE BitOr(_, _)
BitOr(a, b) ==
    IF a = 0 THEN b
    ELSE IF b = 0 THEN a
    ELSE (IF a % 2 = 1 \/ b % 2 = 1 THEN 1 ELSE 0) + 2 * BitOr(a \div 2, b \div 2)

RECURSIVE BitXor(_, _)
BitXor(a, b) ==
    IF a = 0 THEN b
    ELSE IF b = 0 THEN a
    ELSE ((a + b) % 2) + 2 * BitXor(a \div 2, b \div 2)

\* ~m on a uint8_t operand
BitNot(m) == 255 - m

\* x & ~m
BitClear(x, m) == BitAnd(x, BitNot(m))

\* (x << n) truncated to 8 bits, (x >> n)
Shl(x, n) == (x * (2 ^ n)) % 256
Shr(x, n) == x \div (2 ^ n)

(***************************************************************************)
(* parallel.h: signal bits.                                                *)
(***************************************************************************)
PARALLEL_CTRL_STROBE == 1
PARALLEL_CTRL_INIT == 4
PARALLEL_CTRL_IRQEN == 16
PARALLEL_STAT_ERROR == 8
PARALLEL_STAT_SELECT == 16
PARALLEL_STAT_ACK == 64
PARALLEL_STAT_BUSY == 128
PARALLEL_STAT_DEFAULT ==
    BitOr(BitOr(PARALLEL_STAT_BUSY, PARALLEL_STAT_ACK),
          BitOr(PARALLEL_STAT_SELECT, PARALLEL_STAT_ERROR))

PARALLEL_PORT_LPT1 == 0
PARALLEL_PORT_LPT2 == 1
PARALLEL_PORT_COUNT == 2
ParallelPortID == 0..(PARALLEL_PORT_COUNT - 1)

(***************************************************************************)
(* parallel.h: ParallelDevice.  A callback field is TRUE when the function *)
(* pointer is non-NULL.  userdata is the device's own context: whether its *)
(* on_write acknowledges the byte before returning (as printer_on_write    *)
(* does) and the status byte its get_status callback returns.              *)
(***************************************************************************)
ParallelDevice(name, on_write, on_ctrl, get_status, on_reset, acks, status) ==
    [name |-> name, on_write |-> on_write, on_ctrl |-> on_ctrl,
     get_status |-> get_status, on_reset |-> on_reset,
     userdata |-> [acks |-> acks, status |-> status]]

\* memset(&ports[port].device, 0, sizeof(ParallelDevice))
NoDevice == ParallelDevice("", FALSE, FALSE, FALSE, FALSE, FALSE, 0)

\* printer.c: printer_device, always ready, ACK after each byte
printer_device ==
    ParallelDevice("Virtual Printer", TRUE, TRUE, TRUE, TRUE, TRUE, PARALLEL_STAT_DEFAULT)

\* a device that reports busy (nBusy low, nAck high) and never acknowledges
busy_device == ParallelDevice("busy", TRUE, TRUE, TRUE, TRUE, FALSE, 88)

\* a device with an on_write callback only
bare_device == ParallelDevice("bare", TRUE, FALSE, FALSE, FALSE, FALSE, 0)

(***************************************************************************)
(* parallel.c                                                              *)
(***************************************************************************)
\* one entry of ports[] after parallel_bus_init(): memset 0, then reset
ParallelBusPortInit ==
    [data |-> 0, control |-> PARALLEL_CTRL_INIT, status |-> PARALLEL_STAT_DEFAULT,
     strobe_active |-> 0, irq_enabled |-> 0, ack_pending |-> 0,
     has_device |-> 0, device |-> NoDevice]

\* calls records, in order, what the running operation did at the bus and
\* device boundary: callbacks invoked, sibling-chip calls, ACKs and status reads
Log(w, e) == [w EXCEPT !.calls = Append(@, e)]

\* mutant: the latch holds for 4 reads
parallel_bus_device_ack_short(w, port) ==
    LET w0 == Log(w, <<"device_ack", port, w.pbus[port].irq_enabled>>)
    IN IF w.pbus[port].irq_enabled # 0
       THEN LET w1 == [w0 EXCEPT !.pbus[port].status = BitClear(@, PARALLEL_STAT_ACK)]
                w2 == [w1 EXCEPT !.iomd.irqa_parallel = TRUE]
            IN [w2 EXCEPT !.pbus[port].status = BitOr(@, PARALLEL_STAT_ACK)]
       ELSE [w0 EXCEPT !.pbus[port].ack_pending = 4]

\* mutant: the interrupt is raised in polling mode as well
parallel_bus_device_ack_always(w, port) ==
    LET w0 == Log(w, <<"device_ack", port, w.pbus[port].irq_enabled>>)
    IN IF w.pbus[port].irq_enabled # 0
       THEN LET w1 == [w0 EXCEPT !.pbus[port].status = BitClear(@, PARALLEL_STAT_ACK)]
                w2 == [w1 EXCEPT !.iomd.irqa_parallel = TRUE]
            IN [w2 EXCEPT !.pbus[port].status = BitOr(@, PARALLEL_STAT_ACK),
                          !.pbus[port].ack_pending = 5]
       ELSE [w0 EXCEPT !.pbus[port].ack_pending = 5]

parallel_bus_device_ack(w, port) ==
    LET w0 == Log(w, <<"device_ack", port, w.pbus[port].irq_enabled>>)
    IN IF w.pbus[port].irq_enabled # 0
       THEN LET w1 == [w0 EXCEPT !.pbus[port].status = BitClear(@, PARALLEL_STAT_ACK)]
                w2 == [w1 EXCEPT !.iomd.irqa_parallel = TRUE]
            IN [w2 EXCEPT !.pbus[port].status = BitOr(@, PARALLEL_STAT_ACK)]
       ELSE [w0 EXCEPT !.pbus[port].ack_pending = 5]

\* mutant: the pushed status byte is not stored
parallel_bus_device_status_dropped(w, port, status) == w

parallel_bus_device_status(w, port, status) ==
    [w EXCEPT !.pbus[port].status = status]

(***************************************************************************)
(* printer.c: the virtual printer's statics and callbacks.  print_buffer   *)
(* is 1 when the pointer is non-NULL; buffer_pos counts the bytes held, in *)
(* a buffer of PRINTER_BUFFER_SIZE bytes (scaled down from 1 MB).          *)
(***************************************************************************)
PrinterOutput_Disabled == 0
PrinterOutput_File == 1
PrinterOutputMode == {PrinterOutput_Disabled, PrinterOutput_File}
PRINTER_BUFFER_SIZE == 1

\* the static initialisers
PrinterStatics ==
    [output_mode |-> PrinterOutput_Disabled, print_buffer |-> 0,
     buffer_pos |-> 0, attached_port |-> -1]

\* after printer_init() and printer_set_output_mode(PrinterOutput_File)
PrinterReady ==
    [output_mode |-> PrinterOutput_File, print_buffer |-> 1,
     buffer_pos |-> 0, attached_port |-> -1]

\* the bytes go to a file or are discarded; buffer_pos is 0 on every path
printer_flush(w) == [w EXCEPT !.printer.buffer_pos = 0]

printer_on_write(w, data) ==
    IF w.printer.output_mode = PrinterOutput_Disabled \/ w.printer.print_buffer = 0
    THEN w
    ELSE LET w1 == IF w.printer.buffer_pos < PRINTER_BUFFER_SIZE
                   THEN [w EXCEPT !.printer.buffer_pos = @ + 1]
                   ELSE [printer_flush(w) EXCEPT !.printer.buffer_pos = 1]
         IN IF w1.printer.attached_port >= 0
            THEN parallel_bus_device_ack(w1, w1.printer.attached_port)
            ELSE w1

printer_on_reset(w) ==
    IF w.printer.buffer_pos > 0 THEN printer_flush(w) ELSE w

\* the device's callbacks, reached through the descriptor copied on attach
device_on_write(w, port, data) ==
    LET w1 == Log(w, <<"on_write", port, data>>)
    IN IF w.pbus[port].device.name = "Virtual Printer"
       THEN printer_on_write(w1, data)
       ELSE IF w.pbus[port].device.userdata.acks
       THEN parallel_bus_device_ack(w1, port)
       ELSE w1

device_on_reset(w, port) ==
    LET w1 == Log(w, <<"on_reset", port>>)
    IN IF w.pbus[port].device.name = "Virtual Printer"
       THEN printer_on_reset(w1)
       ELSE w1

device_on_ctrl(w, port, ctrl) == Log(w, <<"on_ctrl", port, ctrl>>)

device_get_status(w, port) == w.pbus[port].device.userdata.status

parallel_bus_reset(w) ==
    LET reset1(v, i) ==
            LET v1 == [v EXCEPT !.pbus[i].data = 0,
                                !.pbus[i].control = PARALLEL_CTRL_INIT,
                                !.pbus[i].status = PARALLEL_STAT_DEFAULT,
                                !.pbus[i].strobe_active = 0,
                                !.pbus[i].irq_enabled = 0]
            IN IF v.pbus[i].has_device # 0 /\ v.pbus[i].device.on_reset
               THEN device_on_reset(v1, i)
               ELSE v1
    IN reset1(reset1(w, 0), 1)

\* mutant: a second attach replaces the device
parallel_bus_attach_replace(w, port, device) ==
    <<[w EXCEPT !.pbus[port].device = device, !.pbus[port].has_device = 1], 0>>

\* returns <<state, return value>>
parallel_bus_attach(w, port, device) ==
    IF w.pbus[port].has_device # 0
    THEN <<w, -1>>
    ELSE <<[w EXCEPT !.pbus[port].device = device, !.pbus[port].has_device = 1], 0>>

parallel_bus_detach(w, port) ==
    [w EXCEPT !.pbus[port].has_device = 0, !.pbus[port].device = NoDevice]

\* printer.c: the printer API
printer_detach(w) ==
    IF w.printer.attached_port >= 0
    THEN [parallel_bus_detach(w, w.printer.attached_port)
             EXCEPT !.printer.attached_port = -1]
    ELSE w

\* returns <<state, return value>>
printer_attach(w, port) ==
    LET w1 == printer_detach(w)
        r == parallel_bus_attach(w1, port, printer_device)
    IN IF r[2] < 0
       THEN <<r[1], -1>>
       ELSE <<[r[1] EXCEPT !.printer.attached_port = port], 0>>

\* malloc_ok is FALSE when the allocation of a buffer not yet held fails
printer_init(w, malloc_ok) ==
    IF w.printer.print_buffer = 0 /\ ~malloc_ok
    THEN w
    ELSE [w EXCEPT !.printer.print_buffer = 1,
                   !.printer.buffer_pos = 0,
                   !.printer.attached_port = -1]

printer_set_output_mode(w, mode) ==
    LET w1 == IF mode # w.printer.output_mode /\ w.printer.buffer_pos > 0
              THEN printer_flush(w) ELSE w
    IN [w1 EXCEPT !.printer.output_mode = mode]

\* mutant: the byte is handed to the device as soon as it is latched
parallel_bus_write_data_through(w, port, data) ==
    LET w1 == [w EXCEPT !.pbus[port].data = data]
    IN IF w1.pbus[port].has_device # 0 /\ w1.pbus[port].device.on_write
       THEN device_on_write(w1, port, data)
       ELSE w1

parallel_bus_write_data(w, port, data) ==
    [w EXCEPT !.pbus[port].data = data]

\* mutant: level-triggered, delivers whenever the strobe is driven inactive
parallel_bus_strobe_level(w, port, strobe) ==
    LET p == w.pbus[port]
        w1 == IF strobe = 0 /\ p.has_device # 0 /\ p.device.on_write
              THEN device_on_write(w, port, p.data)
              ELSE w
    IN [w1 EXCEPT !.pbus[port].strobe_active = strobe]

parallel_bus_strobe(w, port, strobe) ==
    LET p == w.pbus[port]
        w1 == IF p.strobe_active # 0 /\ strobe = 0 /\ p.has_device # 0 /\ p.device.on_write
              THEN device_on_write(w, port, p.data)
              ELSE w
    IN [w1 EXCEPT !.pbus[port].strobe_active = strobe]

\* mutant: nInit taken as active high
parallel_bus_set_ctrl_polarity(w, port, ctrl) ==
    LET p == w.pbus[port]
        new_irq == IF BitAnd(ctrl, PARALLEL_CTRL_IRQEN) # 0 THEN 1 ELSE 0
        w1 == IF BitAnd(BitXor(p.control, ctrl), PARALLEL_CTRL_STROBE) # 0
              THEN parallel_bus_strobe(w, port, BitAnd(ctrl, PARALLEL_CTRL_STROBE))
              ELSE w
        w2 == IF BitAnd(ctrl, PARALLEL_CTRL_INIT) # 0
                 /\ w1.pbus[port].has_device # 0 /\ w1.pbus[port].device.on_reset
              THEN device_on_reset(w1, port)
              ELSE w1
        w3 == IF w2.pbus[port].has_device # 0 /\ w2.pbus[port].device.on_ctrl
              THEN device_on_ctrl(w2, port, ctrl)
              ELSE w2
    IN [w3 EXCEPT !.pbus[port].control = ctrl, !.pbus[port].irq_enabled = new_irq]

\* mutant: the device is reset only when nInit goes from high to low
parallel_bus_set_ctrl_edge(w, port, ctrl) ==
    LET p == w.pbus[port]
        new_irq == IF BitAnd(ctrl, PARALLEL_CTRL_IRQEN) # 0 THEN 1 ELSE 0
        w1 == IF BitAnd(BitXor(p.control, ctrl), PARALLEL_CTRL_STROBE) # 0
              THEN parallel_bus_strobe(w, port, BitAnd(ctrl, PARALLEL_CTRL_STROBE))
              ELSE w
        w2 == IF BitAnd(ctrl, PARALLEL_CTRL_INIT) = 0
                 /\ BitAnd(p.control, PARALLEL_CTRL_INIT) # 0
                 /\ w1.pbus[port].has_device # 0 /\ w1.pbus[port].device.on_reset
              THEN device_on_reset(w1, port)
              ELSE w1
        w3 == IF w2.pbus[port].has_device # 0 /\ w2.pbus[port].device.on_ctrl
              THEN device_on_ctrl(w2, port, ctrl)
              ELSE w2
    IN [w3 EXCEPT !.pbus[port].control = ctrl, !.pbus[port].irq_enabled = new_irq]

parallel_bus_set_ctrl(w, port, ctrl) ==
    LET p == w.pbus[port]
        new_irq == IF BitAnd(ctrl, PARALLEL_CTRL_IRQEN) # 0 THEN 1 ELSE 0
        w1 == IF BitAnd(BitXor(p.control, ctrl), PARALLEL_CTRL_STROBE) # 0
              THEN parallel_bus_strobe(w, port, BitAnd(ctrl, PARALLEL_CTRL_STROBE))
              ELSE w
        w2 == IF BitAnd(ctrl, PARALLEL_CTRL_INIT) = 0
                 /\ w1.pbus[port].has_device # 0 /\ w1.pbus[port].device.on_reset
              THEN device_on_reset(w1, port)
              ELSE w1
        w3 == IF w2.pbus[port].has_device # 0 /\ w2.pbus[port].device.on_ctrl
              THEN device_on_ctrl(w2, port, ctrl)
              ELSE w2
    IN [w3 EXCEPT !.pbus[port].control = ctrl, !.pbus[port].irq_enabled = new_irq]

\* returns <<state, return value>>
parallel_bus_get_status(w, port) ==
    LET p == w.pbus[port]
        w1 == IF p.has_device # 0 /\ p.device.get_status
              THEN [w EXCEPT !.pbus[port].status = device_get_status(w, port)]
              ELSE w
        status_val == w1.pbus[port].status
        r == IF w1.pbus[port].ack_pending > 0
             THEN <<[w1 EXCEPT !.pbus[port].ack_pending = @ - 1],
                    BitClear(status_val, PARALLEL_STAT_ACK)>>
             ELSE <<w1, status_val>>
    IN <<Log(r[1], <<"get_status", port, status_val, r[2]>>), r[2]>>

parallel_bus_read_data(w, port) == w.pbus[port].data

(***************************************************************************)
(* superio.c: constants.                                                   *)
(***************************************************************************)
SUPERIO_MODE_NORMAL == 0
SUPERIO_MODE_INTERMEDIATE == 1
SUPERIO_MODE_CONFIGURATION == 2

SuperIOType_FDC37C665GT == "FDC37C665GT"
SuperIOType_FDC37C672 == "FDC37C672"

PP_MODE_SPP == 0
PP_MODE_PS2 == 1
PP_MODE_FIFO == 2
PP_MODE_ECP == 3
PP_MODE_EPP == 4

PP_STATUS_nERROR == 8
PP_STATUS_SELECT == 16
PP_STATUS_nACK == 64
PP_STATUS_nBUSY == 128

PP_CTRL_STROBE == 1
PP_CTRL_nINIT == 4
PP_CTRL_IRQEN == 16
PP_CTRL_BIDI == 32

ECR_FIFO_EMPTY == 1
ECR_FIFO_FULL == 2
ECR_MODE_MASK == 224
ECR_MODE_SHIFT == 5

(***************************************************************************)
(* superio.c: parallel port engine.  pp is the index of the ParallelPort   *)
(* (0 for lpt1, 1 for lpt2); the dispatcher always passes the bus port of  *)
(* the same index.                                                         *)
(***************************************************************************)
\* parallel_reset: memset 0, then the power-on register values
ParallelPortInit ==
    [data |-> 0,
     status |-> BitOr(BitOr(PP_STATUS_nBUSY, PP_STATUS_nACK),
                      BitOr(PP_STATUS_SELECT, PP_STATUS_nERROR)),
     control |-> PP_CTRL_nINIT,
     ecr |-> BitOr(Shl(PP_MODE_SPP, ECR_MODE_SHIFT), ECR_FIFO_EMPTY),
     config_a |-> 0, config_b |-> 0,
     fifo |-> [i \in 0..15 |-> 0],
     fifo_head |-> 0, fifo_tail |-> 0, fifo_count |-> 0,
     last_strobe |-> 0, ack_pending |-> 0]

parallel_reset(w, pp) == [w EXCEPT !.lpt[pp] = ParallelPortInit]

\* mutant: the push does not test for a full FIFO
parallel_fifo_push_unguarded(w, pp, data) ==
    LET q == w.lpt[pp]
        count == q.fifo_count + 1
        ecr1 == BitClear(q.ecr, ECR_FIFO_EMPTY)
        ecr2 == IF count >= 16 THEN BitOr(ecr1, ECR_FIFO_FULL) ELSE ecr1
    IN [w EXCEPT !.lpt[pp].fifo[q.fifo_tail] = data,
                 !.lpt[pp].fifo_tail = BitAnd(q.fifo_tail + 1, 15),
                 !.lpt[pp].fifo_count = count,
                 !.lpt[pp].ecr = ecr2]

parallel_fifo_push(w, pp, data) ==
    LET q == w.lpt[pp]
    IN IF q.fifo_count < 16
       THEN LET count == q.fifo_count + 1
                ecr1 == BitClear(q.ecr, ECR_FIFO_EMPTY)
                ecr2 == IF count >= 16 THEN BitOr(ecr1, ECR_FIFO_FULL) ELSE ecr1
            IN [w EXCEPT !.lpt[pp].fifo[q.fifo_tail] = data,
                         !.lpt[pp].fifo_tail = BitAnd(q.fifo_tail + 1, 15),
                         !.lpt[pp].fifo_count = count,
                         !.lpt[pp].ecr = ecr2]
       ELSE w

\* returns <<state, popped byte>>
parallel_fifo_pop(w, pp) ==
    LET q == w.lpt[pp]
    IN IF q.fifo_count > 0
       THEN LET count == q.fifo_count - 1
                ecr1 == BitClear(q.ecr, ECR_FIFO_FULL)
                ecr2 == IF count = 0 THEN BitOr(ecr1, ECR_FIFO_EMPTY) ELSE ecr1
            IN <<[w EXCEPT !.lpt[pp].fifo_head = BitAnd(q.fifo_head + 1, 15),
                           !.lpt[pp].fifo_count = count,
                           !.lpt[pp].ecr = ecr2],
                 q.fifo[q.fifo_head]>>
       ELSE <<w, 0>>

\* mutant: the handshake does not refresh the status register from the bus
parallel_do_handshake_norefresh(w, pp) ==
    LET w1 == parallel_bus_write_data(w, pp, w.lpt[pp].data)
        w2 == parallel_bus_strobe(w1, pp, 1)
    IN parallel_bus_strobe(w2, pp, 0)

parallel_do_handshake(w, pp) ==
    LET w1 == parallel_bus_write_data(w, pp, w.lpt[pp].data)
        w2 == parallel_bus_strobe(w1, pp, 1)
        w3 == parallel_bus_strobe(w2, pp, 0)
        r == parallel_bus_get_status(w3, pp)
    IN [r[1] EXCEPT !.lpt[pp].status = r[2]]

\* while (pp->fifo_count > 0) { byte = pop; pp->data = byte; handshake }
RECURSIVE fifo_drain(_, _)
fifo_drain(w, pp) ==
    IF w.lpt[pp].fifo_count > 0
    THEN LET r == parallel_fifo_pop(w, pp)
             w1 == [r[1] EXCEPT !.lpt[pp].data = r[2]]
         IN fifo_drain(parallel_do_handshake(w1, pp), pp)
    ELSE w

\* the states the drain loop passes through: after each pop, after the
\* popped byte is stored in pp->data, and after each handshake
RECURSIVE fifo_drain_states(_, _)
fifo_drain_states(w, pp) ==
    IF w.lpt[pp].fifo_count > 0
    THEN LET r == parallel_fifo_pop(w, pp)
             w1 == [r[1] EXCEPT !.lpt[pp].data = r[2]]
             w2 == parallel_do_handshake(w1, pp)
         IN <<r[1], w1, w2>> \o fifo_drain_states(w2, pp)
    ELSE <<>>

\* the states inside parallel_write_ecp case 0: after the push, then the
\* states of the drain loop
fifo_write_states(w, pp, val) ==
    LET w1 == parallel_fifo_push(w, pp, val)
    IN <<w1>> \o fifo_drain_states(w1, pp)

\* mutant: the control write updates the bus before the handshake
parallel_write_ctrl_first(w, pp, offset, val) ==
    LET q == w.lpt[pp]
        mode == BitAnd(Shr(q.ecr, ECR_MODE_SHIFT), 7)
    IN CASE offset = 0 ->
              IF mode = PP_MODE_FIFO \/ mode = PP_MODE_ECP
              THEN fifo_drain(parallel_fifo_push(w, pp, val), pp)
              ELSE parallel_bus_write_data([w EXCEPT !.lpt[pp].data = val], pp, val)
         [] offset = 1 -> w
         [] offset = 2 ->
              LET w1 == parallel_bus_set_ctrl(w, pp, val)
                  w2 == IF BitAnd(q.control, PP_CTRL_STROBE) # 0
                           /\ BitAnd(val, PP_CTRL_STROBE) = 0
                        THEN parallel_do_handshake(w1, pp)
                        ELSE w1
              IN [w2 EXCEPT !.lpt[pp].control = BitAnd(val, 63)]
         [] offset = 3 -> w
         [] offset \in 4..7 ->
              IF mode = PP_MODE_EPP
              THEN parallel_do_handshake([w EXCEPT !.lpt[pp].data = val], pp)
              ELSE w
         [] OTHER -> w

\* mutant: the EPP data registers send the byte in every mode
parallel_write_epp(w, pp, offset, val) ==
    LET q == w.lpt[pp]
        mode == BitAnd(Shr(q.ecr, ECR_MODE_SHIFT), 7)
    IN CASE offset = 0 ->
              IF mode = PP_MODE_FIFO \/ mode = PP_MODE_ECP
              THEN fifo_drain(parallel_fifo_push(w, pp, val), pp)
              ELSE parallel_bus_write_data([w EXCEPT !.lpt[pp].data = val], pp, val)
         [] offset = 1 -> w
         [] offset = 2 ->
              LET w1 == IF BitAnd(q.control, PP_CTRL_STROBE) # 0
                           /\ BitAnd(val, PP_CTRL_STROBE) = 0
                        THEN parallel_do_handshake(w, pp)
                        ELSE w
                  w2 == parallel_bus_set_ctrl(w1, pp, val)
              IN [w2 EXCEPT !.lpt[pp].control = BitAnd(val, 63)]
         [] offset = 3 -> w
         [] offset \in 4..7 ->
              parallel_do_handshake([w EXCEPT !.lpt[pp].data = val], pp)
         [] OTHER -> w

parallel_write(w, pp, offset, val) ==
    LET q == w.lpt[pp]
        mode == BitAnd(Shr(q.ecr, ECR_MODE_SHIFT), 7)
    IN CASE offset = 0 ->
              IF mode = PP_MODE_FIFO \/ mode = PP_MODE_ECP
              THEN fifo_drain(parallel_fifo_push(w, pp, val), pp)
              ELSE parallel_bus_write_data([w EXCEPT !.lpt[pp].data = val], pp, val)
         [] offset = 1 -> w
         [] offset = 2 ->
              LET w1 == IF BitAnd(q.control, PP_CTRL_STROBE) # 0
                           /\ BitAnd(val, PP_CTRL_STROBE) = 0
                        THEN parallel_do_handshake(w, pp)
                        ELSE w
                  w2 == parallel_bus_set_ctrl(w1, pp, val)
              IN [w2 EXCEPT !.lpt[pp].control = BitAnd(val, 63)]
         [] offset = 3 -> w
         [] offset \in 4..7 ->
              IF mode = PP_MODE_EPP
              THEN parallel_do_handshake([w EXCEPT !.lpt[pp].data = val], pp)
              ELSE w
         [] OTHER -> w

\* returns <<state, value read>>
parallel_read(w, pp, offset) ==
    LET q == w.lpt[pp]
        mode == BitAnd(Shr(q.ecr, ECR_MODE_SHIFT), 7)
    IN CASE offset = 0 ->
              IF BitAnd(q.control, PP_CTRL_BIDI) # 0 \/ mode = PP_MODE_PS2
                 \/ mode = PP_MODE_ECP \/ mode = PP_MODE_FIFO
              THEN <<w, parallel_bus_read_data(w, pp)>>
              ELSE <<w, q.data>>
         [] offset = 1 ->
              LET r == parallel_bus_get_status(w, pp)
              IN <<[r[1] EXCEPT !.lpt[pp].status = r[2]], r[2]>>
         [] offset = 2 -> <<w, q.control>>
         [] offset \in 3..7 -> <<w, 255>>
         [] OTHER -> <<w, 0>>

\* mutant: the mode field is taken from the written byte
parallel_write_ecp_mode(w, pp, offset, val) ==
    CASE offset = 0 -> fifo_drain(parallel_fifo_push(w, pp, val), pp)
      [] offset = 1 -> w
      [] offset = 2 ->
           [w EXCEPT !.lpt[pp].ecr = BitOr(BitAnd(val, 252), BitAnd(@, 3))]
      [] offset = 3 -> [w EXCEPT !.lpt[pp].config_b = val]
      [] OTHER -> w

\* mutant: the FIFO register write queues the byte and does not send it
parallel_write_ecp_queued(w, pp, offset, val) ==
    CASE offset = 0 -> parallel_fifo_push(w, pp, val)
      [] offset = 1 -> w
      [] offset = 2 ->
           [w EXCEPT !.lpt[pp].ecr = BitOr(BitAnd(val, 28), BitAnd(@, 3))]
      [] offset = 3 -> [w EXCEPT !.lpt[pp].config_b = val]
      [] OTHER -> w

parallel_write_ecp(w, pp, offset, val) ==
    CASE offset = 0 -> fifo_drain(parallel_fifo_push(w, pp, val), pp)
      [] offset = 1 -> w
      [] offset = 2 ->
           [w EXCEPT !.lpt[pp].ecr = BitOr(BitAnd(val, 28), BitAnd(@, 3))]
      [] offset = 3 -> [w EXCEPT !.lpt[pp].config_b = val]
      [] OTHER -> w

\* returns <<state, value read>>
parallel_read_ecp(w, pp, offset) ==
    CASE offset = 0 -> parallel_fifo_pop(w, pp)
      [] offset = 1 -> <<w, w.lpt[pp].config_a>>
      [] offset = 2 -> <<w, w.lpt[pp].ecr>>
      [] offset = 3 -> <<w, w.lpt[pp].config_b>>
      [] OTHER -> <<w, 0>>

(***************************************************************************)
(* serial.h / serial.c                                                     *)
(***************************************************************************)
SERIAL_PORT_COM1 == 0
SERIAL_PORT_COM2 == 1
SERIAL_PORT_COUNT == 2
SerialPortID == 0..(SERIAL_PORT_COUNT - 1)

\* serial.h: SerialDevice; userdata holds the byte get_status returns
SerialDevice(name, on_write, on_ctrl, get_status, on_reset, status) ==
    [name |-> name, on_write |-> on_write, on_ctrl |-> on_ctrl,
     get_status |-> get_status, on_reset |-> on_reset,
     userdata |-> [status |-> status]]

NoSerialDevice == SerialDevice("", FALSE, FALSE, FALSE, FALSE, 0)

\* a modem-like device reporting CTS and DSR through its get_status callback
modem_device == SerialDevice("modem", TRUE, TRUE, TRUE, TRUE, 48)

\* a device without a get_status callback
plain_device == SerialDevice("plain", TRUE, TRUE, FALSE, TRUE, 0)

\* one entry of ports[] after serial_bus_init()
SerialBusPortInit ==
    [control |-> 0, status |-> 0, has_device |-> 0, device |-> NoSerialDevice]

serial_on_write(w, port, data) == Log(w, <<"serial_on_write", port, data>>)
serial_on_ctrl(w, port, ctrl) == Log(w, <<"serial_on_ctrl", port, ctrl>>)
serial_on_reset(w, port) == Log(w, <<"serial_on_reset", port>>)
serial_get_status(w, port) == w.sbus[port].device.userdata.status

serial_bus_reset(w) ==
    LET reset1(v, i) ==
            LET v1 == [v EXCEPT !.sbus[i].control = 0, !.sbus[i].status = 0]
            IN IF v.sbus[i].has_device # 0 /\ v.sbus[i].device.on_reset
               THEN serial_on_reset(v1, i)
               ELSE v1
    IN reset1(reset1(w, 0), 1)

\* returns <<state, return value>>
serial_bus_attach(w, port, device) ==
    IF w.sbus[port].has_device # 0
    THEN <<w, -1>>
    ELSE <<[w EXCEPT !.sbus[port].device = device, !.sbus[port].has_device = 1], 0>>

serial_bus_detach(w, port) ==
    [w EXCEPT !.sbus[port].has_device = 0, !.sbus[port].device = NoSerialDevice]

\* mutant: the transmitted byte is handed to the device twice
serial_bus_write_data_twice(w, port, data) ==
    IF w.sbus[port].has_device # 0 /\ w.sbus[port].device.on_write
    THEN serial_on_write(serial_on_write(w, port, data), port, data)
    ELSE w

serial_bus_write_data(w, port, data) ==
    IF w.sbus[port].has_device # 0 /\ w.sbus[port].device.on_write
    THEN serial_on_write(w, port, data)
    ELSE w

serial_bus_set_ctrl(w, port, ctrl) ==
    LET w1 == [w EXCEPT !.sbus[port].control = ctrl]
    IN IF w1.sbus[port].has_device # 0 /\ w1.sbus[port].device.on_ctrl
       THEN serial_on_ctrl(w1, port, ctrl)
       ELSE w1

\* returns <<state, return value>>
serial_bus_get_status(w, port) ==
    LET p == w.sbus[port]
        w1 == IF p.has_device # 0 /\ p.device.get_status
              THEN [w EXCEPT !.sbus[port].status = serial_get_status(w, port)]
              ELSE w
    IN <<w1, w1.sbus[port].status>>

(***************************************************************************)
(* superio.c: UART (16550A).                                               *)
(***************************************************************************)
UART_THR == 0
UART_IER == 1
UART_FCR == 2
UART_LCR == 3
UART_MCR == 4
UART_LSR == 5
UART_MSR == 6
UART_SCR == 7

LCR_DLAB == 128

LSR_DR == 1
LSR_OE == 2
LSR_PE == 4
LSR_FE == 8
LSR_BI == 16
LSR_THRE == 32
LSR_TEMT == 64
LSR_ERRORS == BitOr(BitOr(LSR_OE, LSR_PE), BitOr(LSR_FE, LSR_BI))

IIR_NO_INT == 1
IIR_RLS == 6
IIR_RDA == 4
IIR_THRE == 2
IIR_MODEM == 0
IIR_FIFO_EN == 192

\* uart_reset: memset 0, then the power-on register values
UARTInit ==
    [rbr |-> 0, thr |-> 0, dll |-> 12, dlm |-> 0,
     ier |-> 0, iir |-> IIR_NO_INT, fcr |-> 0, lcr |-> 0, mcr |-> 0,
     lsr |-> BitOr(LSR_THRE, LSR_TEMT), msr |-> 0, scr |-> 0,
     rx_head |-> 0, rx_tail |-> 0, rx_count |-> 0,
     tx_head |-> 0, tx_tail |-> 0, tx_count |-> 0,
     fifo_enabled |-> 0]

uart_reset(w, u) == [w EXCEPT !.com[u] = UARTInit]

\* the value uart_update_iir stores, as a function of the UART registers
\* mutant: THR-Empty is identified ahead of Received-Data-Available
iir_encode_thre_first(uart) ==
    LET base == IF BitAnd(uart.ier, 4) # 0 /\ BitAnd(uart.lsr, LSR_ERRORS) # 0
                THEN IIR_RLS
                ELSE IF BitAnd(uart.ier, 2) # 0 /\ BitAnd(uart.lsr, LSR_THRE) # 0
                THEN IIR_THRE
                ELSE IF BitAnd(uart.ier, 1) # 0 /\ BitAnd(uart.lsr, LSR_DR) # 0
                THEN IIR_RDA
                ELSE IF BitAnd(uart.ier, 8) # 0 /\ BitAnd(uart.msr, 15) # 0
                THEN IIR_MODEM
                ELSE IIR_NO_INT
    IN IF uart.fifo_enabled # 0 THEN BitOr(base, IIR_FIFO_EN) ELSE base

iir_encode(uart) ==
    LET base == IF BitAnd(uart.ier, 4) # 0 /\ BitAnd(uart.lsr, LSR_ERRORS) # 0
                THEN IIR_RLS
                ELSE IF BitAnd(uart.ier, 1) # 0 /\ BitAnd(uart.lsr, LSR_DR) # 0
                THEN IIR_RDA
                ELSE IF BitAnd(uart.ier, 2) # 0 /\ BitAnd(uart.lsr, LSR_THRE) # 0
                THEN IIR_THRE
                ELSE IF BitAnd(uart.ier, 8) # 0 /\ BitAnd(uart.msr, 15) # 0
                THEN IIR_MODEM
                ELSE IIR_NO_INT
    IN IF uart.fifo_enabled # 0 THEN BitOr(base, IIR_FIFO_EN) ELSE base

uart_update_iir(w, u) == [w EXCEPT !.com[u].iir = iir_encode(w.com[u])]

\* mutant: the divisor latch is never selected
dlab_set_never(uart) == FALSE

\* uart->lcr & LCR_DLAB
dlab_set(uart) == BitAnd(uart.lcr, LCR_DLAB) # 0

uart_write(w, u, offset, val) ==
    LET uart == w.com[u]
    IN CASE offset = UART_THR ->
              IF dlab_set(uart)
              THEN [w EXCEPT !.com[u].dll = val]
              ELSE LET w1 == serial_bus_write_data(w, u, val)
                       w2 == [w1 EXCEPT !.com[u].lsr =
                                 BitClear(BitClear(@, LSR_THRE), LSR_TEMT)]
                       w3 == [w2 EXCEPT !.com[u].lsr =
                                 BitOr(@, BitOr(LSR_THRE, LSR_TEMT))]
                   IN uart_update_iir(w3, u)
         [] offset = UART_IER ->
              IF dlab_set(uart)
              THEN [w EXCEPT !.com[u].dlm = val]
              ELSE uart_update_iir([w EXCEPT !.com[u].ier = BitAnd(val, 15)], u)
         [] offset = UART_FCR ->
              LET w1 == [w EXCEPT !.com[u].fcr = val,
                                  !.com[u].fifo_enabled =
                                      IF BitAnd(val, 1) # 0 THEN 1 ELSE 0]
                  w2 == IF BitAnd(val, 2) # 0
                        THEN [w1 EXCEPT !.com[u].rx_head = 0, !.com[u].rx_tail = 0,
                                        !.com[u].rx_count = 0]
                        ELSE w1
                  w3 == IF BitAnd(val, 4) # 0
                        THEN [w2 EXCEPT !.com[u].tx_head = 0, !.com[u].tx_tail = 0,
                                        !.com[u].tx_count = 0]
                        ELSE w2
              IN uart_update_iir(w3, u)
         [] offset = UART_LCR -> [w EXCEPT !.com[u].lcr = val]
         [] offset = UART_MCR ->
              LET w1 == [w EXCEPT !.com[u].mcr = BitAnd(val, 31)]
                  w2 == serial_bus_set_ctrl(w1, u, BitAnd(val, 15))
              IN IF BitAnd(val, 16) # 0
                 THEN [w2 EXCEPT !.com[u].msr =
                          BitOr(BitOr(Shl(BitAnd(val, 1), 4), Shl(BitAnd(val, 2), 3)),
                                BitOr(Shl(BitAnd(val, 4), 4), Shl(BitAnd(val, 8), 4)))]
                 ELSE w2
         [] offset = UART_SCR -> [w EXCEPT !.com[u].scr = val]
         [] OTHER -> w

\* mutant: reading IIR clears nothing
iir_after_read_sticky(uart) == uart.iir

\* the IIR left by a read of IIR: a THR-Empty identification is replaced by
\* no-interrupt (with the FIFO bits when the FIFO is enabled)
iir_after_read(uart) ==
    IF BitAnd(uart.iir, 14) = IIR_THRE
    THEN IF uart.fifo_enabled # 0
         THEN BitOr(IIR_NO_INT, IIR_FIFO_EN)
         ELSE IIR_NO_INT
    ELSE uart.iir

\* returns <<state, value read>>
uart_read(w, u, offset) ==
    LET uart == w.com[u]
    IN CASE offset = UART_THR ->
              IF dlab_set(uart)
              THEN <<w, uart.dll>>
              ELSE <<uart_update_iir([w EXCEPT !.com[u].lsr = BitClear(@, LSR_DR)], u),
                     uart.rbr>>
         [] offset = UART_IER ->
              IF dlab_set(uart)
              THEN <<w, uart.dlm>>
              ELSE <<w, uart.ier>>
         [] offset = UART_FCR ->
              <<[w EXCEPT !.com[u].iir = iir_after_read(uart)], uart.iir>>
         [] offset = UART_LCR -> <<w, uart.lcr>>
         [] offset = UART_MCR -> <<w, uart.mcr>>
         [] offset = UART_LSR ->
              <<uart_update_iir([w EXCEPT !.com[u].lsr = BitClear(@, LSR_ERRORS)], u),
                uart.lsr>>
         [] offset = UART_MSR ->
              LET r == IF BitAnd(uart.mcr, 16) # 0
                       THEN <<w, uart.msr>>
                       ELSE serial_bus_get_status(w, u)
              IN <<uart_update_iir([r[1] EXCEPT !.com[u].msr = BitAnd(@, 240)], u),
                   r[2]>>
         [] offset = UART_SCR -> <<w, uart.scr>>
         [] OTHER -> <<w, 0>>

\* mutant: IIR is not recomputed after the byte is stored
superio_serial_rx_stale(w, port, data) ==
    LET w1 == [w EXCEPT !.com[port].rbr = data]
        w2 == [w1 EXCEPT !.com[port].lsr = BitOr(@, LSR_DR)]
    IN IF port = SERIAL_PORT_COM1 /\ BitAnd(w2.com[port].ier, 1) # 0
       THEN [w2 EXCEPT !.iomd.fiq_serial = TRUE]
       ELSE w2

\* mutant: a byte received on either port raises the serial FIQ
superio_serial_rx_anyport(w, port, data) ==
    LET w1 == [w EXCEPT !.com[port].rbr = data]
        w2 == [w1 EXCEPT !.com[port].lsr = BitOr(@, LSR_DR)]
        w3 == uart_update_iir(w2, port)
    IN IF BitAnd(w3.com[port].ier, 1) # 0
       THEN [w3 EXCEPT !.iomd.fiq_serial = TRUE]
       ELSE w3

\* mutant: a byte arriving while Data Ready is set raises Overrun Error
superio_serial_rx_overrun(w, port, data) ==
    LET w1 == [w EXCEPT !.com[port].rbr = data]
        w2 == [w1 EXCEPT !.com[port].lsr =
                  IF BitAnd(@, LSR_DR) # 0 THEN BitOr(@, LSR_OE) ELSE BitOr(@, LSR_DR)]
        w3 == uart_update_iir(w2, port)
    IN IF port = SERIAL_PORT_COM1 /\ BitAnd(w3.com[port].ier, 1) # 0
       THEN [w3 EXCEPT !.iomd.fiq_serial = TRUE]
       ELSE w3

superio_serial_rx(w, port, data) ==
    LET w1 == [w EXCEPT !.com[port].rbr = data]
        w2 == [w1 EXCEPT !.com[port].lsr = BitOr(@, LSR_DR)]
        w3 == uart_update_iir(w2, port)
    IN IF port = SERIAL_PORT_COM1 /\ BitAnd(w3.com[port].ier, 1) # 0
       THEN [w3 EXCEPT !.iomd.fiq_serial = TRUE]
       ELSE w3

\* mutant: IIR is not recomputed after the modem status changes
superio_serial_update_msr_stale(w, port, status) ==
    LET uart == w.com[port]
        old_status == BitAnd(uart.msr, 240)
        delta == Shr(BitXor(old_status, status), 4)
    IN [w EXCEPT !.com[port].msr =
           BitOr(BitOr(BitAnd(status, 240), BitAnd(uart.msr, 15)), delta)]

\* mutant: the new delta bits replace the pending ones
superio_serial_update_msr_replace(w, port, status) ==
    LET uart == w.com[port]
        old_status == BitAnd(uart.msr, 240)
        delta == Shr(BitXor(old_status, status), 4)
        w1 == [w EXCEPT !.com[port].msr = BitOr(BitAnd(status, 240), delta)]
    IN uart_update_iir(w1, port)

superio_serial_update_msr(w, port, status) ==
    LET uart == w.com[port]
        old_status == BitAnd(uart.msr, 240)
        delta == Shr(BitXor(old_status, status), 4)
        w1 == [w EXCEPT !.com[port].msr =
                  BitOr(BitOr(BitAnd(status, 240), BitAnd(uart.msr, 15)), delta)]
    IN uart_update_iir(w1, port)

serial_bus_device_write_data(w, port, data) == superio_serial_rx(w, port, data)

serial_bus_device_status(w, port, status) ==
    superio_serial_update_msr([w EXCEPT !.sbus[port].status = status], port, status)

(***************************************************************************)
(* superio.c: SMI, configuration registers, reset.                         *)
(***************************************************************************)
superio_smi_update(w) ==
    [w EXCEPT !.iomd.irqb_smi =
        BitAnd(w.gp_regs[14], w.gp_regs[12]) # 0
        \/ BitAnd(w.gp_regs[15], w.gp_regs[13]) # 0]

superio_smi_setint1(w, i) ==
    superio_smi_update([w EXCEPT !.gp_regs[14] = BitOr(@, i)])

superio_smi_setint2(w, i) ==
    superio_smi_update([w EXCEPT !.gp_regs[15] = BitOr(@, i)])

superio_smi_clrint1(w, i) ==
    superio_smi_update([w EXCEPT !.gp_regs[14] = BitClear(@, i)])

superio_smi_clrint2(w, i) ==
    superio_smi_update([w EXCEPT !.gp_regs[15] = BitClear(@, i)])

\* mutant: the 665GT bank is indexed one entry too high
superio_config_reg_write_off(w, reg, val) ==
    IF w.super_type = SuperIOType_FDC37C665GT
    THEN [w EXCEPT !.configregs665[BitAnd(reg + 1, 15)] = val]
    ELSE IF w.super_type = SuperIOType_FDC37C672
    THEN CASE reg = 180 -> [w EXCEPT !.gp_regs[12] = val]
           [] reg = 181 -> [w EXCEPT !.gp_regs[13] = val]
           [] OTHER -> [w EXCEPT !.configregs672[reg] = val]
    ELSE w

\* mutant: the 672's 0xB6/0xB7 are stored in gp_regs like 0xB4/0xB5
superio_config_reg_write_b6(w, reg, val) ==
    IF w.super_type = SuperIOType_FDC37C665GT
    THEN [w EXCEPT !.configregs665[BitAnd(reg, 15)] = val]
    ELSE IF w.super_type = SuperIOType_FDC37C672
    THEN IF reg \in 180..183
         THEN [w EXCEPT !.gp_regs[reg - 168] = val]
         ELSE [w EXCEPT !.configregs672[reg] = val]
    ELSE w

superio_config_reg_write(w, reg, val) ==
    IF w.super_type = SuperIOType_FDC37C665GT
    THEN IF reg \in 0..6
         THEN [w EXCEPT !.configregs665[reg] = val]
         ELSE [w EXCEPT !.configregs665[BitAnd(reg, 15)] = val]
    ELSE IF w.super_type = SuperIOType_FDC37C672
    THEN CASE reg = 180 -> [w EXCEPT !.gp_regs[12] = val]
           [] reg = 181 -> [w EXCEPT !.gp_regs[13] = val]
           [] OTHER -> [w EXCEPT !.configregs672[reg] = val]
    ELSE w

\* the values superio_reset assigns to configregs665[0x0..0xf]
ConfigDefaults665 ==
    [i \in 0..15 |->
        CASE i = 0 -> 59 [] i = 1 -> 158 [] i = 2 -> 220 [] i = 3 -> 120
          [] i = 6 -> 255 [] i = 13 -> 101 [] i = 14 -> 2 [] OTHER -> 0]

\* the five entries of configregs672 superio_reset assigns
ConfigDefaults672 == [i \in {3, 32, 36, 38, 39} |->
        CASE i = 3 -> 3 [] i = 32 -> 64 [] i = 36 -> 4 [] i = 38 -> 240 [] OTHER -> 3]

superio_reset(w, chosen_super_type) ==
    LET w1 == [w EXCEPT !.super_type = chosen_super_type,
                        !.configmode = SUPERIO_MODE_NORMAL,
                        !.configreg = 0]
        w2 == parallel_reset(parallel_reset(w1, 0), 1)
        w3 == uart_reset(uart_reset(w2, 0), 1)
        w4 == [w3 EXCEPT !.gp_index = 0,
                         !.gp_regs = [i \in 0..15 |-> 0],
                         !.configregs665 = ConfigDefaults665,
                         !.configregs672 =
                             [i \in 0..255 |->
                                 IF i \in DOMAIN ConfigDefaults672
                                 THEN ConfigDefaults672[i] ELSE @[i]]]
    IN Log(w4, <<"fdc_reset">>)

(***************************************************************************)
(* superio.c: the dispatcher.                                              *)
(***************************************************************************)
\* mutant: the port number is not masked to 11 bits
PortOf_unmasked(addr) == addr \div 4

\* (addr >> 2) & 0x7FF
PortOf(addr) == (addr \div 4) % 2048

\* mutant: a wrong byte in Intermediate does not return the mode to Normal
superio_config_entry_sticky(w, port, byte) ==
    IF w.configmode # SUPERIO_MODE_CONFIGURATION
    THEN IF port = 1008 /\ byte = 85
         THEN <<IF w.super_type = SuperIOType_FDC37C665GT
                THEN IF w.configmode = SUPERIO_MODE_NORMAL
                     THEN [w EXCEPT !.configmode = SUPERIO_MODE_INTERMEDIATE]
                     ELSE IF w.configmode = SUPERIO_MODE_INTERMEDIATE
                     THEN [w EXCEPT !.configmode = SUPERIO_MODE_CONFIGURATION]
                     ELSE w
                ELSE IF w.super_type = SuperIOType_FDC37C672
                THEN [w EXCEPT !.configmode = SUPERIO_MODE_CONFIGURATION]
                ELSE w,
                TRUE>>
         ELSE <<w, FALSE>>
    ELSE <<w, FALSE>>

\* mutant: the magic byte is accepted on every port
superio_config_entry_any_port(w, port, byte) ==
    IF w.configmode # SUPERIO_MODE_CONFIGURATION
    THEN IF byte = 85
         THEN <<IF w.super_type = SuperIOType_FDC37C665GT
                THEN IF w.configmode = SUPERIO_MODE_NORMAL
                     THEN [w EXCEPT !.configmode = SUPERIO_MODE_INTERMEDIATE]
                     ELSE IF w.configmode = SUPERIO_MODE_INTERMEDIATE
                     THEN [w EXCEPT !.configmode = SUPERIO_MODE_CONFIGURATION]
                     ELSE w
                ELSE IF w.super_type = SuperIOType_FDC37C672
                THEN [w EXCEPT !.configmode = SUPERIO_MODE_CONFIGURATION]
                ELSE w,
                TRUE>>
         ELSE <<[w EXCEPT !.configmode = SUPERIO_MODE_NORMAL], FALSE>>
    ELSE <<w, FALSE>>

\* the configuration-mode entry block: returns <<state, TRUE>> when the write
\* was the magic byte and superio_write returns at once
\* mutant: the entry byte moves the state machine and is not consumed
superio_config_entry_forwarded(w, port, byte) ==
    IF w.configmode # SUPERIO_MODE_CONFIGURATION
    THEN IF port = 1008 /\ byte = 85
         THEN <<IF w.super_type = SuperIOType_FDC37C665GT
                THEN IF w.configmode = SUPERIO_MODE_NORMAL
                     THEN [w EXCEPT !.configmode = SUPERIO_MODE_INTERMEDIATE]
                     ELSE IF w.configmode = SUPERIO_MODE_INTERMEDIATE
                     THEN [w EXCEPT !.configmode = SUPERIO_MODE_CONFIGURATION]
                     ELSE w
                ELSE IF w.super_type = SuperIOType_FDC37C672
                THEN [w EXCEPT !.configmode = SUPERIO_MODE_CONFIGURATION]
                ELSE w,
                FALSE>>
         ELSE <<[w EXCEPT !.configmode = SUPERIO_MODE_NORMAL], FALSE>>
    ELSE <<w, FALSE>>

superio_config_entry(w, port, byte) ==
    IF w.configmode # SUPERIO_MODE_CONFIGURATION
    THEN IF port = 1008 /\ byte = 85
         THEN <<IF w.super_type = SuperIOType_FDC37C665GT
                THEN IF w.configmode = SUPERIO_MODE_NORMAL
                     THEN [w EXCEPT !.configmode = SUPERIO_MODE_INTERMEDIATE]
                     ELSE IF w.configmode = SUPERIO_MODE_INTERMEDIATE
                     THEN [w EXCEPT !.configmode = SUPERIO_MODE_CONFIGURATION]
                     ELSE w
                ELSE IF w.super_type = SuperIOType_FDC37C672
                THEN [w EXCEPT !.configmode = SUPERIO_MODE_CONFIGURATION]
                ELSE w,
                TRUE>>
         ELSE <<[w EXCEPT !.configmode = SUPERIO_MODE_NORMAL], FALSE>>
    ELSE <<w, FALSE>>

\* the configuration-mode access block, taken when configmode is Configuration
superio_config_access(w, port, byte) ==
    IF port = 1008
    THEN IF byte = 170
         THEN [w EXCEPT !.configmode = SUPERIO_MODE_NORMAL]
         ELSE [w EXCEPT !.configreg =
                  IF w.super_type = SuperIOType_FDC37C665GT
                  THEN BitAnd(byte, 15) ELSE byte]
    ELSE IF port = 1009
    THEN superio_config_reg_write(w, w.configreg, byte)
    ELSE w

\* the port decode of superio_write below the configuration blocks
superio_write_decode(w, port, byte) ==
    IF w.super_type = SuperIOType_FDC37C672 /\ port = 96
    THEN Log(w, <<"i8042_data_write", byte>>)
    ELSE IF w.super_type = SuperIOType_FDC37C672 /\ port = 100
    THEN Log(w, <<"i8042_command_write", byte>>)
    ELSE IF w.super_type = SuperIOType_FDC37C672 /\ port = 234
    THEN [w EXCEPT !.gp_index = BitAnd(byte, 15)]
    ELSE IF w.super_type = SuperIOType_FDC37C672 /\ port = 235
    THEN superio_smi_update([w EXCEPT !.gp_regs[w.gp_index] = byte])
    ELSE IF port \in 496..503 \/ port = 1014
    THEN IF w.super_type = SuperIOType_FDC37C665GT
         THEN Log(w, <<"writeide", port, byte>>)
         ELSE w
    ELSE IF port \in 632..639
    THEN parallel_write(w, PARALLEL_PORT_LPT2, port - 632, byte)
    ELSE IF port \in 888..895
    THEN parallel_write(w, PARALLEL_PORT_LPT1, port - 888, byte)
    ELSE IF port \in 1656..1663
    THEN parallel_write_ecp(w, PARALLEL_PORT_LPT2, port - 1656, byte)
    ELSE IF port \in 1912..1919
    THEN parallel_write_ecp(w, PARALLEL_PORT_LPT1, port - 1912, byte)
    ELSE IF port \in 1008..1015
    THEN Log(w, <<"fdc_write", port, byte>>)
    ELSE IF port \in 1016..1023
    THEN LET w1 == uart_write(w, SERIAL_PORT_COM1, port - 1016, byte)
         IN IF port = 1017 /\ BitAnd(byte, 2) # 0
            THEN [w1 EXCEPT !.iomd.fiq_serial = TRUE]
            ELSE w1
    ELSE IF port \in 760..767
    THEN uart_write(w, SERIAL_PORT_COM2, port - 760, byte)
    ELSE w

\* mutant: Configuration mode does not end the write after the access block
superio_write_ungated(w, addr, val) ==
    LET port == PortOf(addr)
        byte == val % 256
        e == superio_config_entry(w, port, byte)
    IN IF e[2] THEN e[1]
       ELSE IF e[1].configmode = SUPERIO_MODE_CONFIGURATION
       THEN superio_write_decode(superio_config_access(e[1], port, byte), port, byte)
       ELSE superio_write_decode(e[1], port, byte)

superio_write(w, addr, val) ==
    LET port == PortOf(addr)
        byte == val % 256
        e == superio_config_entry(w, port, byte)
    IN IF e[2] THEN e[1]
       ELSE IF e[1].configmode = SUPERIO_MODE_CONFIGURATION
       THEN superio_config_access(e[1], port, byte)
       ELSE superio_write_decode(e[1], port, byte)

\* returns <<state, value read>>; ext is the value a sibling chip
\* (8042, IDE, FDC) returns when the read is passed through to it
superio_read(w, addr, ext) ==
    LET port == PortOf(addr)
    IN IF w.configmode = SUPERIO_MODE_CONFIGURATION /\ port = 1009
       THEN IF w.super_type = SuperIOType_FDC37C672 /\ w.configreg \in 180..183
            THEN <<w, w.gp_regs[w.configreg - 180 + 12]>>
            ELSE IF w.super_type = SuperIOType_FDC37C665GT
            THEN <<w, w.configregs665[w.configreg]>>
            ELSE <<w, w.configregs672[w.configreg]>>
       ELSE IF w.super_type = SuperIOType_FDC37C672 /\ port = 96
       THEN <<Log(w, <<"i8042_data_read">>), ext>>
       ELSE IF w.super_type = SuperIOType_FDC37C672 /\ port = 100
       THEN <<Log(w, <<"i8042_status_read">>), ext>>
       ELSE IF w.super_type = SuperIOType_FDC37C672 /\ port = 234
       THEN <<w, w.gp_index>>
       ELSE IF w.super_type = SuperIOType_FDC37C672 /\ port = 235
       THEN <<w, w.gp_regs[w.gp_index]>>
       ELSE IF port \in 496..503 \/ port = 1014
       THEN IF w.super_type = SuperIOType_FDC37C665GT
            THEN <<Log(w, <<"readide", port>>), ext>>
            ELSE <<w, 255>>
       ELSE IF port \in 632..639
       THEN parallel_read(w, PARALLEL_PORT_LPT2, port - 632)
       ELSE IF port \in 888..895
       THEN parallel_read(w, PARALLEL_PORT_LPT1, port - 888)
       ELSE IF port \in 1656..1663
       THEN parallel_read_ecp(w, PARALLEL_PORT_LPT2, port - 1656)
       ELSE IF port \in 1912..1919
       THEN parallel_read_ecp(w, PARALLEL_PORT_LPT1, port - 1912)
       ELSE IF port \in 1008..1015
       THEN <<Log(w, <<"fdc_read", port>>), ext>>
       ELSE IF port \in 1016..1023
       THEN LET w1 == IF port = 1018 THEN [w EXCEPT !.iomd.fiq_serial = FALSE] ELSE w
            IN uart_read(w1, SERIAL_PORT_COM1, port - 1016)
       ELSE IF port \in 760..767
       THEN uart_read(w, SERIAL_PORT_COM2, port - 760)
       ELSE <<w, 255>>

(***************************************************************************)
(* The state machine.                                                      *)
(***************************************************************************)
\* the program state at the start of an operation
World ==
    [super_type |-> super_type, configmode |-> configmode, configreg |-> configreg,
     configregs665 |-> configregs665, configregs672 |-> configregs672,
     gp_index |-> gp_index, gp_regs |-> gp_regs, lpt |-> lpt, com |-> com,
     pbus |-> pbus, sbus |-> sbus, iomd |-> iomd, printer |-> printer,
     calls |-> <<>>]

\* the state after power-on: zeroed statics, parallel_bus_init,
\* serial_bus_init and superio_reset(type), with the printer initialised
\* and its output enabled
PowerOn(type) ==
    [super_type |-> type, configmode |-> SUPERIO_MODE_NORMAL, configreg |-> 0,
     configregs665 |-> ConfigDefaults665,
     configregs672 |-> [i \in 0..255 |->
                          IF i \in DOMAIN ConfigDefaults672
                          THEN ConfigDefaults672[i] ELSE 0],
     gp_index |-> 0, gp_regs |-> [i \in 0..15 |-> 0],
     lpt |-> [i \in ParallelPortID |-> ParallelPortInit],
     com |-> [i \in SerialPortID |-> UARTInit],
     pbus |-> [i \in ParallelPortID |-> ParallelBusPortInit],
     sbus |-> [i \in SerialPortID |-> SerialBusPortInit],
     iomd |-> [irqa_parallel |-> FALSE, fiq_serial |-> FALSE, irqb_smi |-> FALSE],
     printer |-> PrinterReady,
     calls |-> <<>>]

\* the on_write bytes and the number of on_reset calls among the events e
RECURSIVE Delivered(_, _)
Delivered(e, port) ==
    IF e = <<>> THEN <<>>
    ELSE IF Head(e)[1] = "on_write" /\ Head(e)[2] = port
         THEN <<Head(e)[3]>> \o Delivered(Tail(e), port)
         ELSE Delivered(Tail(e), port)

RECURSIVE Resets(_, _)
Resets(e, port) ==
    IF e = <<>> THEN 0
    ELSE (IF Head(e)[1] = "on_reset" /\ Head(e)[2] = port THEN 1 ELSE 0)
         + Resets(Tail(e), port)

\* ackLog after the events e: a latched ACK (device_ack with the IRQ-enable
\* flag clear) starts a fresh count, an ACK taken as an interrupt ends it,
\* and every get_status counts one read (up to MaxAckLog) and records the
\* nACK bit of the port status against the nACK bit of the returned value
RECURSIVE AckTrack(_, _)
AckTrack(log, e) ==
    IF e = <<>> THEN log
    ELSE LET h == Head(e)
             nxt == IF h[1] = "device_ack"
                    THEN [log EXCEPT ![h[2]] =
                             [armed |-> h[3] = 0, n |-> 0, raw |-> 0, got |-> 0]]
                    ELSE IF h[1] = "get_status" /\ log[h[2]].armed
                    THEN [log EXCEPT ![h[2]] =
                             [armed |-> TRUE,
                              n |-> IF @.n < MaxAckLog THEN @.n + 1 ELSE @.n,
                              raw |-> BitAnd(h[3], PARALLEL_STAT_ACK),
                              got |-> BitAnd(h[4], PARALLEL_STAT_ACK)]]
                    ELSE log
         IN AckTrack(nxt, Tail(e))

NoAckLog == [i \in ParallelPortID |-> [armed |-> FALSE, n |-> 0, raw |-> 0, got |-> 0]]
NoTotal == [i \in ParallelPortID |-> [writes |-> <<>>, resets |-> 0]]

InitFrom(w) ==
    /\ super_type = w.super_type /\ configmode = w.configmode
    /\ configreg = w.configreg /\ configregs665 = w.configregs665
    /\ configregs672 = w.configregs672 /\ gp_index = w.gp_index
    /\ gp_regs = w.gp_regs /\ lpt = w.lpt /\ com = w.com
    /\ pbus = w.pbus /\ sbus = w.sbus /\ iomd = w.iomd
    /\ printer = w.printer
    /\ calls = <<>> /\ ret = 0 /\ op = <<"init">>
    /\ hist = [n |-> 0, ops |-> <<>>] /\ total = NoTotal /\ ackLog = NoAckLog

\* the operation o took the program to state w and returned r; scenario
\* is TRUE for the operations that hist and total record.  hist holds the
\* first MaxHist recorded operations and total what they delivered; a
\* longer run leaves n = MaxHist + 1 and both records empty
Commit(w, o, r, scenario) ==
    /\ super_type' = w.super_type /\ configmode' = w.configmode
    /\ configreg' = w.configreg /\ configregs665' = w.configregs665
    /\ configregs672' = w.configregs672 /\ gp_index' = w.gp_index
    /\ gp_regs' = w.gp_regs /\ lpt' = w.lpt /\ com' = w.com
    /\ pbus' = w.pbus /\ sbus' = w.sbus /\ iomd' = w.iomd
    /\ printer' = w.printer
    /\ calls' = w.calls /\ ret' = r /\ op' = o
    /\ ackLog' = AckTrack(ackLog, w.calls)
    /\ IF scenario /\ hist.n < MaxHist
       THEN /\ hist' = [n |-> hist.n + 1, ops |-> Append(hist.ops, o)]
            /\ total' = [i \in ParallelPortID |->
                           [writes |-> total[i].writes \o Delivered(w.calls, i),
                            resets |-> total[i].resets + Resets(w.calls, i)]]
       ELSE IF scenario
       THEN hist' = [n |-> MaxHist + 1, ops |-> <<>>] /\ total' = NoTotal
       ELSE UNCHANGED <<hist, total>>

(***************************************************************************)
(* Operations: the guest's accesses through the dispatcher, and the calls  *)
(* devices and the host configuration make on the buses.                   *)
(***************************************************************************)
\* the address the memory system passes for an I/O port
AddrOf(port) == port * 4

GuestWrite(port, val, scenario) ==
    Commit(superio_write(World, AddrOf(port), val), <<"write", port, val>>, 0, scenario)

GuestRead(port, ext) ==
    LET r == superio_read(World, AddrOf(port), ext)
    IN Commit(r[1], <<"read", port>>, r[2], FALSE)

PrinterAttach(port) ==
    LET r == printer_attach(World, port)
    IN Commit(r[1], <<"printer_attach", port>>, r[2], FALSE)

PrinterDetach == Commit(printer_detach(World), <<"printer_detach">>, 0, FALSE)

\* the printer's descriptor is static in printer.c: only printer_attach and
\* printer_detach put it on the bus and take it off
ParallelAttach(port, device) ==
    IF device = printer_device
    THEN PrinterAttach(port)
    ELSE LET r == parallel_bus_attach(World, port, device)
         IN Commit(r[1], <<"parallel_bus_attach", port, device.name>>, r[2], FALSE)

ParallelDetach(port) ==
    IF pbus[port].device = printer_device /\ printer.attached_port = port
    THEN PrinterDetach
    ELSE Commit(parallel_bus_detach(World, port), <<"parallel_bus_detach", port>>,
                0, FALSE)

ParallelBusReset ==
    Commit(parallel_bus_reset(World), <<"parallel_bus_reset">>, 0, FALSE)

ParallelGetStatus(port) ==
    LET r == parallel_bus_get_status(World, port)
    IN Commit(r[1], <<"parallel_bus_get_status", port>>, r[2], FALSE)

ParallelDeviceAck(port) ==
    Commit(parallel_bus_device_ack(World, port), <<"parallel_bus_device_ack", port>>,
           0, FALSE)

ParallelDeviceStatus(port, status) ==
    Commit(parallel_bus_device_status(World, port, status),
           <<"parallel_bus_device_status", port, status>>, 0, FALSE)

SuperioReset(type) ==
    Commit(superio_reset(World, type), <<"superio_reset", type>>, 0, FALSE)

SerialAttach(port, device) ==
    LET r == serial_bus_attach(World, port, device)
    IN Commit(r[1], <<"serial_bus_attach", port, device.name>>, r[2], FALSE)

SerialDetach(port) ==
    Commit(serial_bus_detach(World, port), <<"serial_bus_detach", port>>, 0, FALSE)

SerialBusReset ==
    Commit(serial_bus_reset(World), <<"serial_bus_reset">>, 0, FALSE)

ParallelWriteData(port, data) ==
    Commit(parallel_bus_write_data(World, port, data),
           <<"parallel_bus_write_data", port, data>>, 0, FALSE)

ParallelStrobe(port, strobe) ==
    Commit(parallel_bus_strobe(World, port, strobe),
           <<"parallel_bus_strobe", port, strobe>>, 0, FALSE)

SerialWriteData(port, data) ==
    Commit(serial_bus_write_data(World, port, data),
           <<"serial_bus_write_data", port, data>>, 0, FALSE)

SerialGetStatus(port) ==
    LET r == serial_bus_get_status(World, port)
    IN Commit(r[1], <<"serial_bus_get_status", port>>, r[2], FALSE)

SerialDeviceWriteData(port, data) ==
    Commit(serial_bus_device_write_data(World, port, data),
           <<"serial_bus_device_write_data", port, data>>, 0, FALSE)

SerialDeviceStatus(port, status) ==
    Commit(serial_bus_device_status(World, port, status),
           <<"serial_bus_device_status", port, status>>, 0, FALSE)

(***************************************************************************)
(* Input sets.                                                             *)
(***************************************************************************)
SuperIOTypes == {SuperIOType_FDC37C665GT, SuperIOType_FDC37C672}
ParallelDevices == {printer_device, busy_device, bare_device}

LPT1_BASE == 888      \* 0x378
LPT2_BASE == 632      \* 0x278
COM1_BASE == 1016     \* 0x3F8
COM2_BASE == 760      \* 0x2F8

\* 'A', 'K'
DataBytes == {65, 75}
\* strobe, nInit and IRQ-enable in the combinations a driver writes, and a
\* byte with the two unwritable top bits set
CtrlBytes == {0, 1, 4, 5, 20, 21, 197}

\* the engine and bus port behind a parallel register's I/O port number
PortIndex(port) == IF port \in LPT1_BASE..(LPT1_BASE + 7) THEN PARALLEL_PORT_LPT1
                   ELSE PARALLEL_PORT_LPT2

(***************************************************************************)
(* SpecStrobe: a device on one of the two parallel ports, the engine and   *)
(* the bus at power-on, and a guest that writes the data and control       *)
(* registers of that port and reads its status register.                   *)
(***************************************************************************)
InitStrobe ==
    \E port \in ParallelPortID, d \in ParallelDevices :
        InitFrom(IF d = printer_device
                 THEN printer_attach(PowerOn(SuperIOType_FDC37C665GT), port)[1]
                 ELSE parallel_bus_attach(PowerOn(SuperIOType_FDC37C665GT), port, d)[1])

StrobeDataWrite ==
    \E base \in {LPT1_BASE, LPT2_BASE}, v \in DataBytes :
        /\ pbus[PortIndex(base)].has_device # 0
        /\ GuestWrite(base, v, TRUE)

StrobeCtrlWrite ==
    \E base \in {LPT1_BASE, LPT2_BASE}, v \in CtrlBytes :
        /\ pbus[PortIndex(base)].has_device # 0
        /\ GuestWrite(base + 2, v, TRUE)

StrobeStatusRead ==
    \E base \in {LPT1_BASE, LPT2_BASE} :
        /\ pbus[PortIndex(base)].has_device # 0
        /\ GuestRead(base + 1, 0)

NextStrobe == StrobeDataWrite \/ StrobeCtrlWrite \/ StrobeStatusRead

SpecStrobe == InitStrobe /\ [][NextStrobe]_vars

\* the last operation was a guest write to offset off of a parallel port
IsParWrite(o, off) ==
    o[1] = "write" /\ o[2] \in {LPT1_BASE + off, LPT2_BASE + off}

\* C1: from power-on with a device attached, a control write delivers to
\* on_write exactly once, and the byte of the data register, when it takes the
\* strobe bit from 1 to 0; every other control write and every data write
\* delivers nothing; the data register holds the byte last written to it.
C1_StrobeEdgeDelivers ==
    [][LET o == op'
           pp == PortIndex(o[2])
       IN /\ IsParWrite(o, 2) =>
                /\ Delivered(calls', pp) =
                      IF BitAnd(lpt[pp].control, PP_CTRL_STROBE) # 0
                         /\ BitAnd(o[3], PP_CTRL_STROBE) = 0
                      THEN <<lpt[pp].data>> ELSE <<>>
                /\ Delivered(calls', 1 - pp) = <<>>
                /\ lpt'[pp].data = lpt[pp].data
          /\ IsParWrite(o, 0) =>
                /\ Delivered(calls', 0) = <<>> /\ Delivered(calls', 1) = <<>>
                /\ lpt'[pp].data = o[3]
      ]_vars

\* a control write has just delivered a byte after an earlier data write
C1_Witness ==
    /\ IsParWrite(op, 2)
    /\ Delivered(calls, PortIndex(op[2])) = <<75>>

ScenarioA(last) ==
    <<<<"write", LPT1_BASE, 65>>, <<"write", LPT1_BASE + 2, 5>>,
      <<"write", LPT1_BASE + 2, last>>>>

\* C2 as stated: data = 0x41, control = 0x05, control = 0x01 on LPT1 from
\* power-on leave on_write fired exactly once, with 0x41, and no on_reset.
C2_ScenarioA_0x01 ==
    (pbus[PARALLEL_PORT_LPT1].has_device # 0 /\ hist.ops = ScenarioA(1)) =>
        /\ total[PARALLEL_PORT_LPT1].writes = <<65>>
        /\ total[PARALLEL_PORT_LPT1].resets = 0

\* C2 amended: with control = 0x04 (nINIT alone, the strobe bit cleared) as
\* the third write, on_write has fired exactly once, with 0x41, and on_reset
\* not at all.
C2_ScenarioA_0x04 ==
    (pbus[PARALLEL_PORT_LPT1].has_device # 0 /\ hist.ops = ScenarioA(4)) =>
        /\ total[PARALLEL_PORT_LPT1].writes = <<65>>
        /\ total[PARALLEL_PORT_LPT1].resets = 0

C2_Witness ==
    /\ pbus[PARALLEL_PORT_LPT1].has_device # 0
    /\ hist.ops = ScenarioA(4)
    /\ total[PARALLEL_PORT_LPT1].writes = <<65>>

(***************************************************************************)
(* SpecAck: the bus API as devices and the host configuration call it      *)
(* (attach, detach, device_ack, device_status, get_status, reset), with a  *)
(* guest that writes the control register and reads the status register.   *)
(* A run uses one parallel port at a time: an operation on a port is taken *)
(* while the other port is in its power-on state.                          *)
(***************************************************************************)
\* nBUSY|nACK|SELECT|nERROR, the same with nACK low, and busy with nACK high
StatusBytes == {216, 152, 88}
AckCtrlBytes == {4, 20, 21}

OtherIdle(port) ==
    /\ pbus[1 - port] = ParallelBusPortInit
    /\ lpt[1 - port] = ParallelPortInit
    /\ ~ackLog[1 - port].armed

InitAck == InitFrom(PowerOn(SuperIOType_FDC37C665GT))

AckAttach ==
    \E port \in ParallelPortID, d \in {printer_device, busy_device} :
        OtherIdle(port) /\ ParallelAttach(port, d)

AckDetach == \E port \in ParallelPortID : OtherIdle(port) /\ ParallelDetach(port)

AckDeviceAck == \E port \in ParallelPortID : OtherIdle(port) /\ ParallelDeviceAck(port)

AckDeviceStatus ==
    \E port \in ParallelPortID, s \in StatusBytes :
        OtherIdle(port) /\ ParallelDeviceStatus(port, s)

AckGetStatus == \E port \in ParallelPortID : OtherIdle(port) /\ ParallelGetStatus(port)

AckCtrlWrite ==
    \E base \in {LPT1_BASE, LPT2_BASE}, v \in AckCtrlBytes :
        OtherIdle(PortIndex(base)) /\ GuestWrite(base + 2, v, FALSE)

AckStatusRead ==
    \E base \in {LPT1_BASE, LPT2_BASE} :
        OtherIdle(PortIndex(base)) /\ GuestRead(base + 1, 0)

AckBusReset == ParallelBusReset

AckSuperioReset == SuperioReset(SuperIOType_FDC37C665GT)

NextAck ==
    \/ AckAttach \/ AckDetach \/ AckDeviceAck \/ AckDeviceStatus \/ AckGetStatus
    \/ AckCtrlWrite \/ AckStatusRead \/ AckBusReset \/ AckSuperioReset

SpecAck == InitAck /\ [][NextAck]_vars

\* C3: after a device_ack taken with the IRQ-enable flag clear, and until the
\* next device_ack, each of the first 5 get_status calls on the port returns
\* nACK low, and the 6th and every later call returns nACK high when the port
\* status has it high.
C3_AckLowForFiveReads ==
    \A port \in ParallelPortID :
        (ackLog[port].armed /\ ackLog[port].n >= 1) =>
            /\ ackLog[port].n <= 5 => ackLog[port].got = 0
            /\ (ackLog[port].n > 5 /\ ackLog[port].raw # 0) => ackLog[port].got # 0

\* the sixth read after a latched ACK, with nACK back high
C3_Witness ==
    \E port \in ParallelPortID :
        /\ ackLog[port].armed
        /\ ackLog[port].n = 6
        /\ ackLog[port].got # 0

\* the last operation read the status of LPT1, through the bus API or as the
\* guest's read of the status register
IsLpt1StatusRead(o) ==
    \/ o = <<"parallel_bus_get_status", PARALLEL_PORT_LPT1>>
    \/ o = <<"read", LPT1_BASE + 1>>

\* C4: whenever no device is attached to LPT1, a read of the LPT1 status
\* (guest read of the status register or parallel_bus_get_status) returns 0xD8.
C4_NoDeviceStatusIsDefault ==
    (IsLpt1StatusRead(op) /\ pbus[PARALLEL_PORT_LPT1].has_device = 0) => ret = 216

\* C5 as stated: when parallel_bus_device_ack returns on a port whose
\* IRQ-enable flag is set, the parallel-IRQ status bit is clear again.
C5_IrqBitClearOnReturn ==
    (op[1] = "parallel_bus_device_ack" /\ pbus[op[2]].irq_enabled # 0)
        => ~iomd.irqa_parallel

\* C5 amended: parallel_bus_device_ack on a port whose IRQ-enable flag is set
\* leaves the parallel-IRQ status bit set, the stored nACK status bit high,
\* and the ACK-pending latch as it was.
C5_IrqBitSetOnReturn ==
    [][(op'[1] = "parallel_bus_device_ack" /\ pbus[op'[2]].irq_enabled # 0) =>
          /\ iomd'.irqa_parallel
          /\ BitAnd(pbus'[op'[2]].status, PARALLEL_STAT_ACK) # 0
          /\ pbus'[op'[2]].ack_pending = pbus[op'[2]].ack_pending
      ]_vars

\* an ACK taken as an interrupt while an earlier latched ACK is still pending
C5_Witness ==
    /\ op[1] = "parallel_bus_device_ack"
    /\ pbus[op[2]].irq_enabled # 0
    /\ iomd.irqa_parallel
    /\ pbus[op[2]].ack_pending \in 1..4

(***************************************************************************)
(* SpecUart: the guest reads and writes the registers of a UART with the   *)
(* divisor latch closed, a device may be attached to the serial port, and  *)
(* the device side injects received bytes and modem-status changes.  A run *)
(* uses one UART at a time.                                                *)
(***************************************************************************)
\* RDA alone; THRE and modem status; RDA, line status and modem status
IerBytes == {1, 10, 13}
FcrBytes == {0, 1}
\* DTR|RTS, and the same with loopback
McrBytes == {3, 19}
\* CTS; CTS, DSR and DCD
ModemStatusBytes == {16, 176}
RxBytes == {75}
UartReadOffsets == {UART_THR, UART_FCR, UART_LSR, UART_MSR}

UartIndex(port) == IF port \in COM1_BASE..(COM1_BASE + 7) THEN SERIAL_PORT_COM1
                   ELSE SERIAL_PORT_COM2

OtherUartIdle(u) ==
    com[1 - u] = UARTInit /\ sbus[1 - u] = SerialBusPortInit

InitUart == InitFrom(PowerOn(SuperIOType_FDC37C665GT))

SerialDevices == {modem_device, plain_device}

UartAttach ==
    \E u \in SerialPortID, d \in SerialDevices :
        OtherUartIdle(u) /\ SerialAttach(u, d)

UartDetach == \E u \in SerialPortID : OtherUartIdle(u) /\ SerialDetach(u)

UartRx ==
    \E u \in SerialPortID, b \in RxBytes :
        OtherUartIdle(u) /\ SerialDeviceWriteData(u, b)

UartModemStatus ==
    \E u \in SerialPortID, st \in ModemStatusBytes :
        OtherUartIdle(u) /\ SerialDeviceStatus(u, st)

UartWrite ==
    \E base \in {COM1_BASE, COM2_BASE} :
        /\ OtherUartIdle(UartIndex(base))
        /\ \/ \E v \in RxBytes : GuestWrite(base + UART_THR, v, FALSE)
           \/ \E v \in IerBytes : GuestWrite(base + UART_IER, v, FALSE)
           \/ \E v \in FcrBytes : GuestWrite(base + UART_FCR, v, FALSE)
           \/ \E v \in McrBytes : GuestWrite(base + UART_MCR, v, FALSE)

UartRead ==
    \E base \in {COM1_BASE, COM2_BASE}, off \in UartReadOffsets :
        OtherUartIdle(UartIndex(base)) /\ GuestRead(base + off, 0)

NextUart ==
    \/ UartAttach \/ UartDetach \/ UartRx \/ UartModemStatus
    \/ UartWrite \/ UartRead

SpecUart == InitUart /\ [][NextUart]_vars

FifoBits(uart) == IF uart.fifo_enabled # 0 THEN IIR_FIFO_EN ELSE 0

C7_RxRaisesRda ==
    (op[1] = "serial_bus_device_write_data" /\ op[2] = SERIAL_PORT_COM1
     /\ BitAnd(com[SERIAL_PORT_COM1].ier, 1) # 0) =>
        LET uart == com[SERIAL_PORT_COM1]
        IN /\ BitAnd(uart.lsr, LSR_DR) # 0
           /\ uart.rbr = op[3]
           /\ uart.iir = (IF uart.fifo_enabled # 0 THEN 196 ELSE 4)
           /\ iomd.fiq_serial

\* the byte arrived while IER also enables the line-status and modem sources
C7_Witness ==
    /\ op = <<"serial_bus_device_write_data", SERIAL_PORT_COM1, 75>>
    /\ com[SERIAL_PORT_COM1].ier = 13
    /\ com[SERIAL_PORT_COM1].iir = 196
    /\ iomd.fiq_serial

(***************************************************************************)
(* SpecCfg: the guest drives the configuration index and data ports (and   *)
(* one FDC port beside them) on either chip variant; the machine may be    *)
(* reset, keeping its variant.                                             *)
(***************************************************************************)
CONFIG_INDEX_PORT == 1008   \* 0x3F0
CONFIG_DATA_PORT == 1009    \* 0x3F1
FDC_DOR_PORT == 1010        \* 0x3F2

\* the magic bytes, CR6, a byte whose low nibble is 6, and the 672's 0xB4
IndexBytes == {85, 170, 6, 22, 180}
ConfigValues == {85, 60}
ConfigPorts == {CONFIG_INDEX_PORT, CONFIG_DATA_PORT, FDC_DOR_PORT}

InitCfg == \E type \in SuperIOTypes : InitFrom(PowerOn(type))

CfgIndexWrite == \E v \in IndexBytes : GuestWrite(CONFIG_INDEX_PORT, v, FALSE)

CfgDataWrite == \E v \in ConfigValues : GuestWrite(CONFIG_DATA_PORT, v, FALSE)

CfgOtherWrite == \E v \in ConfigValues : GuestWrite(FDC_DOR_PORT, v, FALSE)

CfgRead == \E port \in ConfigPorts : GuestRead(port, 0)

CfgReset == SuperioReset(super_type)

NextCfg == CfgIndexWrite \/ CfgDataWrite \/ CfgOtherWrite \/ CfgRead \/ CfgReset

SpecCfg == InitCfg /\ [][NextCfg]_vars

\* the transition relation of the configuration mode under a write
ModeAfterWrite(type, mode, port, byte) ==
    CASE mode = SUPERIO_MODE_NORMAL ->
            IF port = CONFIG_INDEX_PORT /\ byte = 85
            THEN (IF type = SuperIOType_FDC37C665GT
                  THEN SUPERIO_MODE_INTERMEDIATE ELSE SUPERIO_MODE_CONFIGURATION)
            ELSE SUPERIO_MODE_NORMAL
      [] mode = SUPERIO_MODE_INTERMEDIATE ->
            IF port = CONFIG_INDEX_PORT /\ byte = 85
            THEN SUPERIO_MODE_CONFIGURATION ELSE SUPERIO_MODE_NORMAL
      [] OTHER ->
            IF port = CONFIG_INDEX_PORT /\ byte = 170
            THEN SUPERIO_MODE_NORMAL ELSE SUPERIO_MODE_CONFIGURATION

\* C8: a superio_write moves the configuration mode by the transition
\* relation Normal -0x55-> Intermediate -0x55-> Configuration (665GT),
\* Normal -0x55-> Configuration (672), Intermediate -other-> Normal,
\* Configuration -0xAA-> Normal and Configuration otherwise unchanged; a
\* superio_read leaves the mode unchanged.
C8_ConfigModeTransitions ==
    [][/\ op'[1] = "write" =>
            configmode' = ModeAfterWrite(super_type, configmode, op'[2], op'[3])
       /\ op'[1] = "read" => configmode' = configmode
      ]_vars

\* the second 0x55 has taken the 665GT from Intermediate to Configuration
C8_Witness ==
    /\ super_type = SuperIOType_FDC37C665GT
    /\ op = <<"write", CONFIG_INDEX_PORT, 85>>
    /\ configmode = SUPERIO_MODE_CONFIGURATION

LPT1_ECP_BASE == 1912     \* 0x778
LPT2_ECP_BASE == 1656     \* 0x678

\* no bits; ECP mode with nErr-interrupt and service bits; configuration
\* mode with DMA enable and both FIFO status bits
EcrBytes == {0, 116, 235}
FifoBytes == {66}

EcpIndex(port) == IF port \in LPT1_ECP_BASE..(LPT1_ECP_BASE + 7)
                  THEN PARALLEL_PORT_LPT1 ELSE PARALLEL_PORT_LPT2

InitEcr == InitFrom(PowerOn(SuperIOType_FDC37C665GT))

EcrAttach ==
    \E port \in ParallelPortID : OtherIdle(port) /\ ParallelAttach(port, printer_device)

EcrWrite ==
    \E base \in {LPT1_ECP_BASE, LPT2_ECP_BASE}, v \in EcrBytes :
        OtherIdle(EcpIndex(base)) /\ GuestWrite(base + 2, v, FALSE)

EcrConfigWrite ==
    \E base \in {LPT1_ECP_BASE, LPT2_ECP_BASE}, off \in {1, 3} :
        OtherIdle(EcpIndex(base)) /\ GuestWrite(base + off, 116, FALSE)

EcrFifoWrite ==
    \E base \in {LPT1_ECP_BASE, LPT2_ECP_BASE}, v \in FifoBytes :
        /\ OtherIdle(EcpIndex(base))
        /\ lpt[EcpIndex(base)].fifo_tail < MaxFifoWrites
        /\ GuestWrite(base, v, FALSE)

EcrDataWrite ==
    \E base \in {LPT1_BASE, LPT2_BASE}, v \in DataBytes :
        /\ OtherIdle(PortIndex(base))
        /\ lpt[PortIndex(base)].fifo_tail < MaxFifoWrites
        /\ GuestWrite(base, v, FALSE)

EcrRead ==
    \E base \in {LPT1_ECP_BASE, LPT2_ECP_BASE}, off \in 0..3 :
        OtherIdle(EcpIndex(base)) /\ GuestRead(base + off, 0)

EcrReset == SuperioReset(SuperIOType_FDC37C665GT)

NextEcr ==
    \/ EcrAttach \/ EcrWrite \/ EcrConfigWrite \/ EcrFifoWrite \/ EcrDataWrite
    \/ EcrRead \/ EcrReset

SpecEcr == InitEcr /\ [][NextEcr]_vars

IsEcrAccess(o, kind) ==
    o[1] = kind /\ o[2] \in {LPT1_ECP_BASE + 2, LPT2_ECP_BASE + 2}

\* C10: the ECR of each port always has mode field 0, and so has every value
\* read from it; an ECR write of v leaves bits 4:2 equal to those of v and
\* bits 1:0 as they were.
C10_EcrModeForcedSpp ==
    [][/\ \A pp \in ParallelPortID : BitAnd(lpt'[pp].ecr, ECR_MODE_MASK) = 0
       /\ IsEcrAccess(op', "read") => BitAnd(ret', ECR_MODE_MASK) = 0
       /\ IsEcrAccess(op', "write") =>
             LET pp == EcpIndex(op'[2])
             IN /\ BitAnd(lpt'[pp].ecr, 28) = BitAnd(op'[3], 28)
                /\ BitAnd(lpt'[pp].ecr, 3) = BitAnd(lpt[pp].ecr, 3)
      ]_vars

\* an ECR write asking for configuration mode with DMA enabled has stored
\* the DMA bit and kept the FIFO-empty bit
C10_Witness ==
    \E base \in {LPT1_ECP_BASE, LPT2_ECP_BASE} :
        /\ op = <<"write", base + 2, 235>>
        /\ lpt[EcpIndex(base)].ecr = 9

(***************************************************************************)
(* SpecFifo: the 16-byte FIFO of a parallel port under any sequence of     *)
(* parallel_fifo_push and parallel_fifo_pop calls, together with the guest *)
(* accesses that reach it: writes and reads of the ECP FIFO register and   *)
(* writes of the ECR.  A run uses one parallel port at a time, and the      *)
(* guest writes the FIFO register while at most MaxFifoWrites bytes are    *)
(* held (the dispatcher itself always leaves the FIFO drained).            *)
(***************************************************************************)
InitFifo == InitFrom(PowerOn(SuperIOType_FDC37C665GT))

FifoPush ==
    \E pp \in ParallelPortID, b \in FifoBytes :
        /\ OtherIdle(pp)
        /\ Commit(parallel_fifo_push(World, pp, b),
                  <<"parallel_fifo_push", pp, b>>, 0, FALSE)

FifoPop ==
    \E pp \in ParallelPortID :
        /\ OtherIdle(pp)
        /\ LET r == parallel_fifo_pop(World, pp)
           IN Commit(r[1], <<"parallel_fifo_pop", pp>>, r[2], FALSE)

FifoGuestWrite ==
    \E base \in {LPT1_ECP_BASE, LPT2_ECP_BASE}, v \in FifoBytes :
        /\ OtherIdle(EcpIndex(base))
        /\ lpt[EcpIndex(base)].fifo_count <= MaxFifoWrites
        /\ GuestWrite(base, v, FALSE)

FifoGuestRead ==
    \E base \in {LPT1_ECP_BASE, LPT2_ECP_BASE}, off \in {0, 2} :
        OtherIdle(EcpIndex(base)) /\ GuestRead(base + off, 0)

FifoEcrWrite ==
    \E base \in {LPT1_ECP_BASE, LPT2_ECP_BASE}, v \in EcrBytes :
        OtherIdle(EcpIndex(base)) /\ GuestWrite(base + 2, v, FALSE)

NextFifo ==
    \/ FifoPush \/ FifoPop \/ FifoGuestWrite \/ FifoGuestRead \/ FifoEcrWrite

SpecFifo == InitFifo /\ [][NextFifo]_vars

\* fifo_count is within 0..16 and the two ECR status bits are its functions
FifoFlagsExact(q) ==
    /\ q.fifo_count \in 0..16
    /\ (BitAnd(q.ecr, ECR_FIFO_EMPTY) # 0) <=> (q.fifo_count = 0)
    /\ (BitAnd(q.ecr, ECR_FIFO_FULL) # 0) <=> (q.fifo_count = 16)

\* C11: in every state of each parallel port, and in every state inside a
\* guest write of the FIFO register (after the push, after each pop and
\* after each handshake), 0 <= fifo_count <= 16, ECR bit 0 is set exactly
\* when fifo_count = 0 and ECR bit 1 exactly when fifo_count = 16; a push on
\* a full FIFO and a pop on an empty FIFO change nothing.
C11_FifoCountAndFlags ==
    [][/\ \A pp \in ParallelPortID :
             FifoFlagsExact(lpt[pp]) /\ FifoFlagsExact(lpt'[pp])
       /\ (op'[1] = "write" /\ op'[2] \in {LPT1_ECP_BASE, LPT2_ECP_BASE}) =>
             LET pp == EcpIndex(op'[2])
                 t == fifo_write_states(World, pp, op'[3])
             IN /\ \A i \in DOMAIN t : FifoFlagsExact(t[i].lpt[pp])
                /\ t[Len(t)].lpt = lpt'
       /\ (op'[1] = "parallel_fifo_push" /\ lpt[op'[2]].fifo_count = 16) =>
             lpt' = lpt
       /\ (op'[1] = "parallel_fifo_pop" /\ lpt[op'[2]].fifo_count = 0) =>
             lpt' = lpt /\ ret' = 0
       /\ (op'[1] = "read" /\ op'[2] \in {LPT1_ECP_BASE, LPT2_ECP_BASE}
           /\ lpt[EcpIndex(op'[2])].fifo_count = 0) =>
             lpt' = lpt /\ ret' = 0
      ]_vars

\* a push has been made on a FIFO holding 16 bytes that wrapped around
C11_Witness ==
    \E pp \in ParallelPortID :
        /\ op[1] = "parallel_fifo_push" /\ op[2] = pp
        /\ lpt[pp].fifo_count = 16
        /\ lpt[pp].fifo_head = 5 /\ lpt[pp].fifo_tail = 5
        /\ BitAnd(lpt[pp].ecr, 3) = ECR_FIFO_FULL

(***************************************************************************)
(* SpecDlab: the guest opens and closes the divisor latch through LCR and  *)
(* writes and reads offsets 0 and 1 of a UART in both settings, while a    *)
(* device may be attached and may send a byte.  hist records the writes    *)
(* made to offsets 0 and 1 while the latch is open.  A run uses one UART   *)
(* at a time.                                                              *)
(***************************************************************************)
\* 8N1 with the latch closed and open
LcrBytes == {3, 131}
Off0Bytes == {75, 96}
\* RDA, line status and modem status; a byte with bit 1 set
Off1Bytes == {13, 35}

\* LCR bit 7 of UART u is set
LatchOpen(u) == com[u].lcr >= LCR_DLAB

InitDlab == InitFrom(PowerOn(SuperIOType_FDC37C665GT))

DlabAttach == \E u \in SerialPortID : OtherUartIdle(u) /\ SerialAttach(u, modem_device)

DlabLcrWrite ==
    \E base \in {COM1_BASE, COM2_BASE}, v \in LcrBytes :
        OtherUartIdle(UartIndex(base)) /\ GuestWrite(base + UART_LCR, v, FALSE)

DlabWrite0 ==
    \E base \in {COM1_BASE, COM2_BASE}, v \in Off0Bytes :
        /\ OtherUartIdle(UartIndex(base))
        /\ GuestWrite(base + UART_THR, v, LatchOpen(UartIndex(base)))

DlabWrite1 ==
    \E base \in {COM1_BASE, COM2_BASE}, v \in Off1Bytes :
        /\ OtherUartIdle(UartIndex(base))
        /\ GuestWrite(base + UART_IER, v, LatchOpen(UartIndex(base)))

DlabRead ==
    \E base \in {COM1_BASE, COM2_BASE}, off \in {UART_THR, UART_IER} :
        OtherUartIdle(UartIndex(base)) /\ GuestRead(base + off, 0)

DlabRx ==
    \E u \in SerialPortID, b \in RxBytes :
        OtherUartIdle(u) /\ SerialDeviceWriteData(u, b)

NextDlab ==
    \/ DlabAttach \/ DlabLcrWrite \/ DlabWrite0 \/ DlabWrite1 \/ DlabRead \/ DlabRx

SpecDlab == InitDlab /\ [][NextDlab]_vars

\* o is a guest access of the given kind to offset off of a UART
IsUartAccess(o, kind, off) ==
    o[1] = kind /\ o[2] \in {COM1_BASE + off, COM2_BASE + off}

\* the byte of the last write to the I/O port among the recorded writes,
\* or -1 if there is none
LastWritten(ops, port) ==
    LET S == {i \in DOMAIN ops : ops[i][2] = port}
    IN IF S = {} THEN -1
       ELSE ops[CHOOSE i \in S : \A j \in S : j <= i][3]

\* C12: a write to offset 0 or 1 with DLAB = 1 stores the byte in DLL or DLM
\* and leaves RBR and IER as they were; an LCR write changes none of the
\* four; a read of offset 0 or 1 with DLAB = 0 returns RBR or IER, and with
\* DLAB = 1 returns DLL or DLM, which is the byte last written there with
\* the latch open.
C12_DivisorLatchRoundTrip ==
    [][\A off \in {UART_THR, UART_IER} :
         /\ IsUartAccess(op', "write", off) /\ LatchOpen(UartIndex(op'[2])) =>
               LET u == UartIndex(op'[2])
               IN /\ com'[u].rbr = com[u].rbr /\ com'[u].ier = com[u].ier
                  /\ com'[u].dll = (IF off = UART_THR THEN op'[3] ELSE com[u].dll)
                  /\ com'[u].dlm = (IF off = UART_IER THEN op'[3] ELSE com[u].dlm)
         /\ IsUartAccess(op', "write", UART_LCR) =>
               LET u == UartIndex(op'[2])
               IN /\ com'[u].rbr = com[u].rbr /\ com'[u].ier = com[u].ier
                  /\ com'[u].dll = com[u].dll /\ com'[u].dlm = com[u].dlm
         /\ IsUartAccess(op', "read", off) =>
               LET u == UartIndex(op'[2])
                   last == LastWritten(hist.ops, op'[2])
               IN /\ com'[u].dll = com[u].dll /\ com'[u].dlm = com[u].dlm
                  /\ IF LatchOpen(u)
                     THEN /\ ret' = (IF off = UART_THR THEN com[u].dll ELSE com[u].dlm)
                          /\ last # -1 => ret' = last
                     ELSE ret' = (IF off = UART_THR THEN com[u].rbr ELSE com[u].ier)
      ]_vars

\* with the latch closed again after both divisor bytes were written, a read
\* of offset 0 has returned the byte the device sent, not the divisor
C12_Witness ==
    \E u \in SerialPortID :
        /\ IsUartAccess(op, "read", UART_THR) /\ UartIndex(op[2]) = u
        /\ hist.n = 2
        /\ com[u].lcr = 3 /\ com[u].dll = 96 /\ com[u].dlm = 35
        /\ com[u].rbr = 75 /\ ret = 75

\* C13 as stated: while DLAB = 1 a guest write to offset 0 or 1 of COM1 or
\* COM2 changes only DLL or DLM respectively: the device's on_write is not
\* invoked, no other UART register changes, and the IOMD serial FIQ status
\* bit keeps its value.
C13_DlabWriteOnlyDivisor ==
    [][\A off \in {UART_THR, UART_IER} :
         (IsUartAccess(op', "write", off) /\ LatchOpen(UartIndex(op'[2]))) =>
            LET u == UartIndex(op'[2])
            IN /\ com' = (IF off = UART_THR
                          THEN [com EXCEPT ![u].dll = op'[3]]
                          ELSE [com EXCEPT ![u].dlm = op'[3]])
               /\ calls' = <<>>
               /\ sbus' = sbus
               /\ iomd'.fiq_serial = iomd.fiq_serial
      ]_vars

\* C17: a guest write of b to offset 0 with DLAB = 0 invokes on_write of the
\* attached device exactly once with b and nothing else (nothing at all with
\* no device), and THRE and TEMT are set when it returns; THRE and TEMT are
\* set in every state between operations.
C17_ThrWriteTransmits ==
    [][/\ \A u \in SerialPortID :
             /\ BitAnd(com[u].lsr, BitOr(LSR_THRE, LSR_TEMT)) = BitOr(LSR_THRE, LSR_TEMT)
             /\ BitAnd(com'[u].lsr, BitOr(LSR_THRE, LSR_TEMT)) = BitOr(LSR_THRE, LSR_TEMT)
       /\ (IsUartAccess(op', "write", UART_THR) /\ ~LatchOpen(UartIndex(op'[2]))) =>
             LET u == UartIndex(op'[2])
             IN calls' = (IF sbus[u].has_device # 0 /\ sbus[u].device.on_write
                          THEN << <<"serial_on_write", u, op'[3]>> >>
                          ELSE <<>>)
      ]_vars

\* a byte was transmitted to the attached device while a received byte was
\* waiting: LSR reads Data Ready, THRE and TEMT
C17_Witness ==
    \E u \in SerialPortID :
        /\ IsUartAccess(op, "write", UART_THR) /\ UartIndex(op[2]) = u
        /\ calls = << <<"serial_on_write", u, 75>> >>
        /\ com[u].lsr = 97

\* the MSR status nibble the loopback wiring gives for an MCR value:
\* DTR -> DSR, RTS -> CTS, OUT1 -> RI, OUT2 -> DCD
LoopbackStatus(mcr) ==
    (IF BitAnd(mcr, 1) # 0 THEN 32 ELSE 0) + (IF BitAnd(mcr, 2) # 0 THEN 16 ELSE 0)
    + (IF BitAnd(mcr, 4) # 0 THEN 64 ELSE 0) + (IF BitAnd(mcr, 8) # 0 THEN 128 ELSE 0)

\* C14 as stated: the MSR read that follows an MCR write with the loopback
\* bit set returns DSR = DTR, CTS = RTS, RI = OUT1 and DCD = OUT2.
C14_LoopbackMsr ==
    [][\A base \in {COM1_BASE, COM2_BASE} :
         (/\ op[1] = "write" /\ op[2] = base + UART_MCR /\ BitAnd(op[3], 16) # 0
          /\ op' = <<"read", base + UART_MSR>>) =>
            BitAnd(ret', 240) = LoopbackStatus(op[3])
      ]_vars

\* C15 as stated: with a device attached, the MSR read that follows
\* serial_bus_device_status with a changed line returns the delta bits the UART holds, and the MSR read
\* that follows that read returns the delta bits clear.
C15_MsrDeltaReadOnce ==
    [][\A u \in SerialPortID :
         LET port == IF u = SERIAL_PORT_COM1 THEN COM1_BASE ELSE COM2_BASE
         IN /\ (/\ op[1] = "serial_bus_device_status" /\ op[2] = u
                /\ sbus[u].has_device # 0
                /\ BitAnd(com[u].msr, 15) # 0
                /\ op' = <<"read", port + UART_MSR>>) =>
                   BitAnd(ret', 15) = BitAnd(com[u].msr, 15)
            /\ (/\ op = <<"read", port + UART_MSR>>
                /\ op' = <<"read", port + UART_MSR>>) =>
                   BitAnd(ret', 15) = 0
      ]_vars

\* C16: a read of IIR returns the stored IIR; when that identifies THR-Empty
\* the read replaces it by no-interrupt (0x01, 0xC1 with the FIFO enabled),
\* which an immediately following read of IIR returns; when it identifies
\* anything else the read leaves every UART register as it was.
C16_IirReadClearsThre ==
    [][\A base \in {COM1_BASE, COM2_BASE} :
         LET u == UartIndex(base)
         IN /\ op' = <<"read", base + UART_FCR>> =>
                 /\ ret' = com[u].iir
                 /\ IF BitAnd(com[u].iir, 14) = IIR_THRE
                    THEN com' = [com EXCEPT ![u].iir = BitOr(IIR_NO_INT, FifoBits(com[u]))]
                    ELSE com' = com
            /\ (/\ op = <<"read", base + UART_FCR>> /\ BitAnd(ret, 14) = IIR_THRE
                /\ op' = <<"read", base + UART_FCR>>) =>
                 ret' = BitOr(IIR_NO_INT, FifoBits(com[u]))
      ]_vars

\* a read of IIR has returned THR-Empty in FIFO mode and left no-interrupt
C16_Witness ==
    \E base \in {COM1_BASE, COM2_BASE} :
        /\ op = <<"read", base + UART_FCR>>
        /\ ret = 194
        /\ com[UartIndex(base)].iir = 193
        /\ BitAnd(com[UartIndex(base)].ier, 2) # 0

(***************************************************************************)
(* SpecBus: the parallel and the serial bus driven through their own       *)
(* interface: devices are attached and detached, the host side latches     *)
(* data, drives the strobe level and asks for the status, and the device   *)
(* side pushes a status byte.  A run uses one bus at a time, and on the     *)
(* parallel bus one port at a time.                                        *)
(***************************************************************************)
StrobeLevels == {0, 1}

ParallelBusIdle ==
    /\ pbus = [i \in ParallelPortID |-> ParallelBusPortInit]
    /\ ackLog = NoAckLog

SerialBusIdle == sbus = [i \in SerialPortID |-> SerialBusPortInit]

InitBus == InitFrom(PowerOn(SuperIOType_FDC37C665GT))

BusAttach ==
    \E port \in ParallelPortID, d \in ParallelDevices :
        OtherIdle(port) /\ SerialBusIdle /\ ParallelAttach(port, d)

BusDetach == \E port \in ParallelPortID : OtherIdle(port) /\ SerialBusIdle /\ ParallelDetach(port)

BusWriteData ==
    \E port \in ParallelPortID, b \in DataBytes :
        OtherIdle(port) /\ SerialBusIdle /\ ParallelWriteData(port, b)

BusStrobe ==
    \E port \in ParallelPortID, level \in StrobeLevels :
        OtherIdle(port) /\ SerialBusIdle /\ ParallelStrobe(port, level)

BusDeviceStatus ==
    \E port \in ParallelPortID, s \in StatusBytes :
        OtherIdle(port) /\ SerialBusIdle /\ ParallelDeviceStatus(port, s)

BusGetStatus == \E port \in ParallelPortID : OtherIdle(port) /\ SerialBusIdle /\ ParallelGetStatus(port)

BusSerialAttach ==
    \E u \in SerialPortID, d \in SerialDevices :
        ParallelBusIdle /\ SerialAttach(u, d)

BusSerialDetach == \E u \in SerialPortID : ParallelBusIdle /\ SerialDetach(u)

BusSerialWriteData ==
    \E u \in SerialPortID, b \in RxBytes :
        ParallelBusIdle /\ SerialWriteData(u, b)

BusSerialGetStatus == \E u \in SerialPortID : ParallelBusIdle /\ SerialGetStatus(u)

NextBus ==
    \/ BusAttach \/ BusDetach \/ BusWriteData \/ BusStrobe
    \/ BusDeviceStatus \/ BusGetStatus
    \/ BusSerialAttach \/ BusSerialDetach \/ BusSerialWriteData \/ BusSerialGetStatus

SpecBus == InitBus /\ [][NextBus]_vars

\* the descriptor a caller passes, found by its name
ParallelDeviceNamed(name) == CHOOSE d \in ParallelDevices : d.name = name
SerialDeviceNamed(name) == CHOOSE d \in SerialDevices : d.name = name

\* C18: on either bus, attach on a free port returns 0 and makes the passed
\* device the port's device; attach on an occupied port returns -1 and
\* leaves the bus as it was, so the first device keeps answering; detach
\* leaves the port with no device; a port holds a device exactly when its
\* has_device flag is 1, and none when it is 0.
C18_AttachDetach ==
    [][/\ \A port \in ParallelPortID :
            /\ pbus'[port].has_device \in {0, 1}
            /\ pbus'[port].has_device = 0 <=> pbus'[port].device = NoDevice
            /\ pbus'[port].has_device = 1 => pbus'[port].device \in ParallelDevices
            /\ (op'[1] = "parallel_bus_attach" /\ op'[2] = port) =>
                  IF pbus[port].has_device = 0
                  THEN /\ ret' = 0
                       /\ pbus' = [pbus EXCEPT ![port].has_device = 1,
                                               ![port].device = ParallelDeviceNamed(op'[3])]
                  ELSE ret' = -1 /\ pbus' = pbus
            /\ op' = <<"parallel_bus_detach", port>> =>
                  pbus' = [pbus EXCEPT ![port].has_device = 0, ![port].device = NoDevice]
            /\ (op' = <<"parallel_bus_get_status", port>> /\ pbus[port].has_device = 1
                /\ pbus[port].device.get_status) =>
                  BitOr(ret', PARALLEL_STAT_ACK)
                      = BitOr(pbus[port].device.userdata.status, PARALLEL_STAT_ACK)
       /\ \A u \in SerialPortID :
            /\ sbus'[u].has_device \in {0, 1}
            /\ sbus'[u].has_device = 0 <=> sbus'[u].device = NoSerialDevice
            /\ sbus'[u].has_device = 1 => sbus'[u].device \in SerialDevices
            /\ (op'[1] = "serial_bus_attach" /\ op'[2] = u) =>
                  IF sbus[u].has_device = 0
                  THEN /\ ret' = 0
                       /\ sbus' = [sbus EXCEPT ![u].has_device = 1,
                                               ![u].device = SerialDeviceNamed(op'[3])]
                  ELSE ret' = -1 /\ sbus' = sbus
            /\ op' = <<"serial_bus_detach", u>> =>
                  sbus' = [sbus EXCEPT ![u].has_device = 0, ![u].device = NoSerialDevice]
            /\ (op'[1] = "serial_bus_write_data" /\ op'[2] = u) =>
                  calls' = (IF sbus[u].has_device = 1 /\ sbus[u].device.on_write
                            THEN << <<"serial_on_write", u, op'[3]>> >> ELSE <<>>)
      ]_vars

\* attaching the busy device to a port that holds the printer has failed and
\* the printer is still the port's device
C18_Witness ==
    \E port \in ParallelPortID :
        /\ op = <<"parallel_bus_attach", port, "busy">>
        /\ ret = -1
        /\ pbus[port].has_device = 1
        /\ pbus[port].device = printer_device

\* s with the nACK bit forced low when the port's ACK latch is pending
WithAckLatch(s, port) ==
    IF pbus[port].ack_pending > 0 THEN BitClear(s, PARALLEL_STAT_ACK) ELSE s

\* C19 as stated: the parallel_bus_get_status that follows
\* parallel_bus_device_status(port, s) returns s, with at most the nACK bit
\* forced low by a pending ACK latch, whatever is attached to the port.
C19_PushedStatusReturned ==
    [][\A port \in ParallelPortID :
         (/\ op[1] = "parallel_bus_device_status" /\ op[2] = port
          /\ op' = <<"parallel_bus_get_status", port>>) =>
            ret' = WithAckLatch(op[3], port)
      ]_vars

\* C19 amended: that call returns s (nACK forced low by a pending latch)
\* when the port has no device with a get_status callback; when it has one,
\* the call returns the callback's byte (nACK forced low likewise) and
\* stores it over s.
C19_PushedStatusUnlessCallback ==
    [][\A port \in ParallelPortID :
         (/\ op[1] = "parallel_bus_device_status" /\ op[2] = port
          /\ op' = <<"parallel_bus_get_status", port>>) =>
            IF pbus[port].has_device # 0 /\ pbus[port].device.get_status
            THEN /\ ret' = WithAckLatch(pbus[port].device.userdata.status, port)
                 /\ pbus'[port].status = pbus[port].device.userdata.status
            ELSE /\ ret' = WithAckLatch(op[3], port)
                 /\ pbus'[port].status = op[3]
      ]_vars

\* a status byte that only the push can produce has been returned on a port
\* whose device has no get_status callback
C19_Witness ==
    \E port \in ParallelPortID :
        /\ op = <<"parallel_bus_get_status", port>>
        /\ ret = 152
        /\ pbus[port].device = bare_device

\* C20: parallel_bus_write_data only latches the byte and invokes nothing;
\* parallel_bus_strobe records the level and invokes on_write exactly once,
\* with the latched byte, when it takes the level from active to inactive on
\* a port whose device has the callback, and nothing otherwise (rising edge,
\* unchanged level, no device); the latched byte changes only by write_data.
C20_BusStrobeEdge ==
    [][\A port \in ParallelPortID :
         /\ (op'[1] = "parallel_bus_write_data" /\ op'[2] = port) =>
               /\ calls' = <<>>
               /\ pbus' = [pbus EXCEPT ![port].data = op'[3]]
         /\ (op'[1] = "parallel_bus_strobe" /\ op'[2] = port) =>
               /\ pbus'[port].strobe_active = op'[3]
               /\ pbus'[port].data = pbus[port].data
               /\ IF /\ pbus[port].strobe_active # 0 /\ op'[3] = 0
                     /\ pbus[port].has_device # 0 /\ pbus[port].device.on_write
                  THEN /\ Delivered(calls', port) = <<pbus[port].data>>
                       /\ Head(calls') = <<"on_write", port, pbus[port].data>>
                  ELSE calls' = <<>>
         /\ pbus'[port].data # pbus[port].data => op'[1] = "parallel_bus_write_data"
      ]_vars

\* a falling strobe edge has delivered 'K' to a device that does not
\* acknowledge; the strobe level is recorded inactive
C20_Witness ==
    \E port \in ParallelPortID :
        /\ op = <<"parallel_bus_strobe", port, 0>>
        /\ calls = << <<"on_write", port, 75>> >>
        /\ pbus[port].strobe_active = 0
        /\ pbus[port].device = busy_device

(***************************************************************************)
(* Reset, undecoded ports and the address decode (checked under SpecCfg    *)
(* and SpecPorts).                                                         *)
(***************************************************************************)
\* C21: after superio_reset(type), whatever state preceded it, the
\* configuration mode is Normal, the index register is 0, both parallel
\* ports and both UARTs hold their power-on register values, the GP
\* registers are zero, and every entry of the 16-byte 665GT bank and of the
\* 256-byte 672 bank holds its power-on default value.
C21_ResetRestoresPowerOn ==
    op[1] = "superio_reset" =>
        /\ super_type = op[2]
        /\ configmode = SUPERIO_MODE_NORMAL
        /\ configreg = 0
        /\ lpt = PowerOn(op[2]).lpt
        /\ com = PowerOn(op[2]).com
        /\ gp_index = 0
        /\ gp_regs = PowerOn(op[2]).gp_regs
        /\ configregs665 = PowerOn(op[2]).configregs665
        /\ configregs672 = PowerOn(op[2]).configregs672

\* the SuperIO state a guest access can change (everything but the
\* observers of the last operation)
StateOf(w) ==
    <<w.super_type, w.configmode, w.configreg, w.configregs665, w.configregs672,
      w.gp_index, w.gp_regs, w.lpt, w.com, w.pbus, w.sbus, w.iomd, w.printer>>

Now == StateOf(World)

\* the port ranges superio_write and superio_read match for a chip variant
Decoded(type, port) ==
    \/ type = SuperIOType_FDC37C672 /\ port \in {96, 100, 234, 235}
    \/ port \in 496..503 \/ port = 1014
    \/ port \in 632..639 \/ port \in 888..895
    \/ port \in 1656..1663 \/ port \in 1912..1919
    \/ port \in 1008..1015
    \/ port \in 1016..1023 \/ port \in 760..767

(***************************************************************************)
(* SpecPorts: on either chip variant the guest writes and reads the        *)
(* configuration ports, a port no range decodes, the 672's GP data port,   *)
(* the LPT1 control register and the COM1 scratch register, through plain  *)
(* and through aliased addresses and values.                               *)
(***************************************************************************)
UNDECODED_PORT == 256      \* 0x100
GP_INDEX_PORT == 234       \* 0xEA
GP_DATA_PORT == 235        \* 0xEB
LPT1_STATUS_PORT == 889    \* 0x379
LPT1_CTRL_PORT == 890      \* 0x37A
COM1_SCR_PORT == 1023      \* 0x3FF

\* bits of the address and of the value the decode drops: the two low
\* address bits with bit 13, and bit 8 of the value
AddrAlias == 8195
ValAlias == 256
Aliases == {<<0, 0>>, <<AddrAlias, ValAlias>>}

\* the bytes written to each port: the magic bytes and the 672's 0xB4 and
\* 0xB6 for the index port, and one byte for the data port and the engines
PortWrites ==
    [p \in {CONFIG_INDEX_PORT, CONFIG_DATA_PORT, UNDECODED_PORT,
            GP_DATA_PORT, LPT1_CTRL_PORT, COM1_SCR_PORT} |->
        CASE p = CONFIG_INDEX_PORT -> {85, 170, 180, 182}
          [] p = CONFIG_DATA_PORT -> {182}
          [] p = UNDECODED_PORT -> {85, 170}
          [] p = LPT1_CTRL_PORT -> {12}
          [] OTHER -> {85}]

InitPorts == \E type \in SuperIOTypes : InitFrom(PowerOn(type))

PortsWrite ==
    \E p \in DOMAIN PortWrites : \E v \in PortWrites[p] : \E a \in Aliases :
        Commit(superio_write(World, AddrOf(p) + a[1], v + a[2]),
               <<"write", p, v, a[1], a[2]>>, 0, FALSE)

PortsRead ==
    \E p \in DOMAIN PortWrites \cup {LPT1_STATUS_PORT} : \E a \in Aliases :
        LET r == superio_read(World, AddrOf(p) + a[1], 0)
        IN Commit(r[1], <<"read", p, 0, a[1], 0>>, r[2], FALSE)

NextPorts == PortsWrite \/ PortsRead

SpecPorts == InitPorts /\ [][NextPorts]_vars

\* C22 (as stated): a superio_read of a port that matches no decoded range
\* returns 0xFF and changes no state, and a superio_write to such a port
\* changes no state at all, in every chip variant and configuration mode.
C22_UndecodedNoEffect ==
    [][(op'[1] \in {"write", "read"} /\ ~Decoded(super_type, op'[2])) =>
          /\ Now' = Now
          /\ op'[1] = "read" => ret' = 255
      ]_vars

\* the state with the configuration mode left out
NowButMode ==
    <<super_type, configreg, configregs665, configregs672, gp_index, gp_regs,
      lpt, com, pbus, sbus, iomd, printer>>

\* C22 (amended): a superio_read of an undecoded port returns 0xFF and
\* changes no state; a superio_write to one reaches no callback and changes
\* nothing but the configuration mode, which it returns from Intermediate
\* to Normal (and leaves alone in Normal and Configuration).
C22_UndecodedOnlyAbortsEntry ==
    [][(op'[1] \in {"write", "read"} /\ ~Decoded(super_type, op'[2])) =>
          /\ NowButMode' = NowButMode
          /\ calls' = <<>>
          /\ op'[1] = "read" => (ret' = 255 /\ configmode' = configmode)
          /\ op'[1] = "write" =>
                configmode' = IF configmode = SUPERIO_MODE_INTERMEDIATE
                              THEN SUPERIO_MODE_NORMAL ELSE configmode
      ]_vars

\* a write to the undecoded port has taken the 665GT out of Intermediate
\* mode with an index and a stored value left in place
C22_Witness ==
    /\ op[1] = "write" /\ op[2] = UNDECODED_PORT
    /\ super_type = SuperIOType_FDC37C665GT
    /\ configmode = SUPERIO_MODE_NORMAL
    /\ configreg = 6 /\ configregs665[6] = 182

\* C24: superio_write(addr, val) and superio_read(addr) depend on addr only
\* through port = (addr >> 2) & 0x7FF and on val only through its low 8
\* bits: the call's next state, callbacks and result are those of the call
\* made from the same state with the address port * 4 and the low byte.
C24_AddrAndValueDecode ==
    [][/\ op'[1] = "write" =>
            /\ Now' = StateOf(superio_write(World, 4 * op'[2], op'[3]))
            /\ calls' = superio_write(World, 4 * op'[2], op'[3]).calls
       /\ op'[1] = "read" =>
            /\ Now' = StateOf(superio_read(World, 4 * op'[2], 0)[1])
            /\ calls' = superio_read(World, 4 * op'[2], 0)[1].calls
            /\ ret' = superio_read(World, 4 * op'[2], 0)[2]
      ]_vars

\* an aliased address with a value above 0xFF stored the low byte in the
\* selected 672 configuration register
C24_Witness ==
    /\ op = <<"write", CONFIG_DATA_PORT, 182, AddrAlias, ValAlias>>
    /\ super_type = SuperIOType_FDC37C672
    /\ configreg = 85 /\ configregs672[85] = 182

\* C28: in Configuration mode, writing v to the data port (0x3F1) and then
\* reading the data port returns v for every index on the 665GT and for
\* every index on the 672 except 0xB6 and 0xB7; on the 672 a write at index
\* 0xB4/0xB5 goes to gp_regs[0xC]/[0xD] and leaves the flat bank alone, a
\* write at 0xB6/0xB7 goes to the flat bank and leaves the GP registers
\* alone, and a read at 0xB4..0xB7 returns gp_regs[0xC]..gp_regs[0xF].
C28_ConfigDataReadBack ==
    [][/\ (op[1] = "write" /\ op[2] = CONFIG_DATA_PORT
           /\ configmode = SUPERIO_MODE_CONFIGURATION
           /\ op'[1] = "read" /\ op'[2] = CONFIG_DATA_PORT) =>
              IF super_type = SuperIOType_FDC37C672 /\ configreg \in {182, 183}
              THEN ret' = gp_regs[configreg - 168]
              ELSE ret' = op[3]
       /\ (op'[1] = "write" /\ op'[2] = CONFIG_DATA_PORT
           /\ configmode = SUPERIO_MODE_CONFIGURATION
           /\ super_type = SuperIOType_FDC37C672) =>
              IF configreg \in {180, 181}
              THEN /\ gp_regs' = [gp_regs EXCEPT ![configreg - 168] = op'[3]]
                   /\ configregs672' = configregs672
              ELSE /\ configregs672' = [configregs672 EXCEPT ![configreg] = op'[3]]
                   /\ gp_regs' = gp_regs
       /\ (op'[1] = "read" /\ op'[2] = CONFIG_DATA_PORT
           /\ configmode = SUPERIO_MODE_CONFIGURATION
           /\ super_type = SuperIOType_FDC37C672 /\ configreg \in 180..183) =>
              ret' = gp_regs[configreg - 168]
      ]_vars

\* on the 672 a byte stored at index 0xB6 sits in the flat bank while the
\* read-back returned gp_regs[0xE], which is still 0
C28_Witness ==
    /\ op[1] = "read" /\ op[2] = CONFIG_DATA_PORT
    /\ super_type = SuperIOType_FDC37C672
    /\ configmode = SUPERIO_MODE_CONFIGURATION
    /\ configreg = 182 /\ configregs672[182] = 182
    /\ ret = 0

\* C29: while the chip is in Configuration mode every superio_write to a
\* port other than 0x3F0 and 0x3F1 is discarded: it changes no state and
\* reaches no sibling chip or device callback; a superio_read of a port
\* other than 0x3F1 is not gated: it returns what the same read returns in
\* Normal mode, with the same calls and the same effect on the engines.
C29_ConfigModeDiscardsWrites ==
    [][configmode = SUPERIO_MODE_CONFIGURATION =>
          /\ (op'[1] = "write"
              /\ op'[2] \notin {CONFIG_INDEX_PORT, CONFIG_DATA_PORT}) =>
                 (Now' = Now /\ calls' = <<>>)
          /\ (op'[1] = "read" /\ op'[2] # CONFIG_DATA_PORT) =>
                 LET r == superio_read(
                              [World EXCEPT !.configmode = SUPERIO_MODE_NORMAL],
                              4 * op'[2], 0)
                 IN /\ ret' = r[2]
                    /\ calls' = r[1].calls
                    /\ NowButMode' =
                          <<r[1].super_type, r[1].configreg, r[1].configregs665,
                            r[1].configregs672, r[1].gp_index, r[1].gp_regs,
                            r[1].lpt, r[1].com, r[1].pbus, r[1].sbus, r[1].iomd,
                            r[1].printer>>
                    /\ configmode' = configmode
      ]_vars

\* in Configuration mode the LPT1 control write was dropped: the register
\* still holds its reset value and the bus was not called
C29_Witness ==
    /\ configmode = SUPERIO_MODE_CONFIGURATION
    /\ op[1] = "write" /\ op[2] = LPT1_CTRL_PORT
    /\ calls = <<>>
    /\ lpt = PowerOn(super_type).lpt

(***************************************************************************)
(* SpecPrinter: the virtual printer from its static initial state: it is   *)
(* initialised, its output mode is set, it is attached to a port and       *)
(* detached, and the host side of the bus latches bytes and drives the     *)
(* strobe.                                                                 *)
(***************************************************************************)
InitPrinter ==
    InitFrom([PowerOn(SuperIOType_FDC37C665GT) EXCEPT !.printer = PrinterStatics])

PrnInit ==
    \E malloc_ok \in BOOLEAN :
        Commit(printer_init(World, malloc_ok), <<"printer_init", malloc_ok>>, 0, FALSE)

PrnSetOutputMode ==
    \E mode \in PrinterOutputMode :
        Commit(printer_set_output_mode(World, mode),
               <<"printer_set_output_mode", mode>>, 0, FALSE)

PrnAttach == \E port \in ParallelPortID : PrinterAttach(port)

PrnDetach == PrinterDetach

PrnWriteData ==
    \E port \in ParallelPortID, b \in DataBytes : ParallelWriteData(port, b)

PrnStrobe ==
    \E port \in ParallelPortID, level \in StrobeLevels : ParallelStrobe(port, level)

NextPrinter ==
    PrnInit \/ PrnSetOutputMode \/ PrnAttach \/ PrnDetach \/ PrnWriteData \/ PrnStrobe

SpecPrinter == InitPrinter /\ [][NextPrinter]_vars

\* every on_write on the port among the events e is directly followed by
\* one device_ack on the port, and by no second one
RECURSIVE EachWriteAcked(_, _)
EachWriteAcked(e, port) ==
    IF e = <<>> THEN TRUE
    ELSE IF Head(e)[1] = "on_write" /\ Head(e)[2] = port
    THEN /\ Len(e) >= 2
         /\ e[2][1] = "device_ack" /\ e[2][2] = port
         /\ (Len(e) >= 3 => ~(e[3][1] = "device_ack" /\ e[3][2] = port))
         /\ EachWriteAcked(Tail(Tail(e)), port)
    ELSE EachWriteAcked(Tail(e), port)

\* C23: every byte delivered to the virtual printer's on_write callback
\* while it is attached to a port is followed, within the same call, by
\* exactly one parallel_bus_device_ack on that port, in every output mode
\* and buffer state of the printer.
C23_PrinterAcksEveryByte ==
    [][\A port \in ParallelPortID :
          (pbus[port].device = printer_device /\ printer.attached_port = port) =>
              EachWriteAcked(calls', port)
      ]_vars

(***************************************************************************)
(* The handshake of a control-register write (checked under SpecStrobe).   *)
(***************************************************************************)
\* the printer is the port's device and its on_write acknowledges
PrinterAcksOn(port) ==
    /\ pbus[port].has_device # 0 /\ pbus[port].device = printer_device
    /\ printer.attached_port = port
    /\ printer.output_mode # PrinterOutput_Disabled /\ printer.print_buffer # 0

\* C25: with the printer, which acknowledges inside on_write, attached and
\* the port's IRQ-enable flag clear, a guest control-register write with a
\* strobe falling edge leaves 4 of the 5 latched reads pending and nACK low
\* in the status register, the handshake's own status refresh having taken
\* the first; every guest read of the status register (offset 1) then shows
\* nACK low and takes one pending read while any is left, and shows nACK
\* high once none is left: low on exactly the next 4 reads, high afterwards.
C25_FourLowReadsAfterHandshake ==
    [][\A base \in {LPT1_BASE, LPT2_BASE} :
          LET port == PortIndex(base)
          IN PrinterAcksOn(port) =>
               /\ (/\ op'[1] = "write" /\ op'[2] = base + 2
                   /\ BitAnd(lpt[port].control, PP_CTRL_STROBE) # 0
                   /\ BitAnd(op'[3], PP_CTRL_STROBE) = 0
                   /\ pbus[port].irq_enabled = 0) =>
                      /\ pbus'[port].ack_pending = 4
                      /\ BitAnd(lpt'[port].status, PP_STATUS_nACK) = 0
               /\ op' = <<"read", base + 1>> =>
                      IF pbus[port].ack_pending > 0
                      THEN /\ BitAnd(ret', PP_STATUS_nACK) = 0
                           /\ pbus'[port].ack_pending = pbus[port].ack_pending - 1
                      ELSE /\ BitAnd(ret', PP_STATUS_nACK) = PP_STATUS_nACK
                           /\ pbus'[port].ack_pending = 0
      ]_vars

\* the sixth status read since the printer's ACK (the handshake's own and
\* five by the guest) is the first to show nACK high
C25_Witness ==
    \E base \in {LPT1_BASE, LPT2_BASE} :
        /\ PrinterAcksOn(PortIndex(base))
        /\ op = <<"read", base + 1>>
        /\ BitAnd(ret, PP_STATUS_nACK) = PP_STATUS_nACK
        /\ ackLog[PortIndex(base)].armed
        /\ ackLog[PortIndex(base)].n = 6
        /\ pbus[PortIndex(base)].ack_pending = 0

(***************************************************************************)
(* Strobe edges across a machine reset (checked under SpecAck).            *)
(***************************************************************************)
\* C30: a device's on_write is never invoked during a control-register
\* write unless the control register read back 1 in the strobe bit before
\* the write and the written byte has strobe bit 0, for every sequence of
\* guest writes interleaved with superio_reset calls.
C30_OnWriteOnlyOnRegisterEdge ==
    [][\A base \in {LPT1_BASE, LPT2_BASE} :
          (/\ op'[1] = "write" /\ op'[2] = base + 2
           /\ Delivered(calls', PortIndex(base)) # <<>>) =>
              /\ BitAnd(lpt[PortIndex(base)].control, PP_CTRL_STROBE) # 0
              /\ BitAnd(op'[3], PP_CTRL_STROBE) = 0
      ]_vars

(***************************************************************************)
(* Loopback and the modem status inputs (checked under SpecUart).          *)
(***************************************************************************)
\* the MSR value uart_write synthesises from an MCR byte with loopback set
McrLoopedBack(mcr) ==
    BitOr(BitOr(BitAnd(mcr, 1) * 16, BitAnd(mcr, 2) * 8),
          BitOr(BitAnd(mcr, 4) * 16, BitAnd(mcr, 8) * 16))

\* C26: while the MCR loopback bit is set, the value the guest reads from
\* MSR is determined by the MCR output bits alone (it is the value the MCR
\* write synthesised): neither the attached device's get_status callback
\* nor a serial_bus_device_status call made while loopback is set changes
\* what the next MSR read returns.
C26_LoopbackMsrFromMcrAlone ==
    [][\A base \in {COM1_BASE, COM2_BASE} :
          (/\ BitAnd(com[UartIndex(base)].mcr, 16) # 0
           /\ op' = <<"read", base + UART_MSR>>) =>
              /\ ret' = McrLoopedBack(com[UartIndex(base)].mcr)
              /\ calls' = <<>>
      ]_vars

(***************************************************************************)
(* SpecSmi: the 672's SMI sources: the sibling chips raise and clear       *)
(* interrupt bits, the guest writes the GP registers through 0xEA/0xEB and *)
(* the enable registers through configuration indices 0xB4/0xB5, and the   *)
(* machine is reset.                                                       *)
(***************************************************************************)
SmiBits == {1}
GpIndexBytes == {12, 14}
SmiCfgIndexBytes == {85, 170, 180}

InitSmi == InitFrom(PowerOn(SuperIOType_FDC37C672))

SmiSetInt ==
    \E i \in SmiBits :
        \/ Commit(superio_smi_setint1(World, i), <<"superio_smi_setint1", i>>, 0, FALSE)
        \/ Commit(superio_smi_setint2(World, i), <<"superio_smi_setint2", i>>, 0, FALSE)

SmiClrInt ==
    \E i \in SmiBits :
        \/ Commit(superio_smi_clrint1(World, i), <<"superio_smi_clrint1", i>>, 0, FALSE)
        \/ Commit(superio_smi_clrint2(World, i), <<"superio_smi_clrint2", i>>, 0, FALSE)

SmiGpIndexWrite == \E v \in GpIndexBytes : GuestWrite(GP_INDEX_PORT, v, FALSE)

SmiGpDataWrite == \E v \in {0} \cup SmiBits : GuestWrite(GP_DATA_PORT, v, FALSE)

SmiCfgIndexWrite == \E v \in SmiCfgIndexBytes : GuestWrite(CONFIG_INDEX_PORT, v, FALSE)

SmiCfgDataWrite == \E v \in {0} \cup SmiBits : GuestWrite(CONFIG_DATA_PORT, v, FALSE)

SmiReset == SuperioReset(SuperIOType_FDC37C672)

NextSmi ==
    \/ SmiSetInt \/ SmiClrInt \/ SmiGpIndexWrite \/ SmiGpDataWrite
    \/ SmiCfgIndexWrite \/ SmiCfgDataWrite \/ SmiReset

SpecSmi == InitSmi /\ [][NextSmi]_vars

\* C27: on the 672, after every completed operation (GP data-port writes,
\* superio_smi_setint/clrint calls, configuration-register writes to
\* indices 0xB4/0xB5, superio_reset) the IOMD SuperIO-SMI status bit is set
\* if and only if (gp_regs[0xE] & gp_regs[0xC]) != 0 or
\* (gp_regs[0xF] & gp_regs[0xD]) != 0.
C27_SmiBitTracksSources ==
    super_type = SuperIOType_FDC37C672 =>
        (iomd.irqb_smi <=>
            (\/ BitAnd(gp_regs[14], gp_regs[12]) # 0
             \/ BitAnd(gp_regs[15], gp_regs[13]) # 0))

(***************************************************************************)
(* The line-status error bits.                                             *)
(***************************************************************************)
NoLineStatusError(uart) ==
    /\ BitAnd(uart.lsr, LSR_OE) = 0 /\ BitAnd(uart.lsr, LSR_PE) = 0
    /\ BitAnd(uart.lsr, LSR_FE) = 0 /\ BitAnd(uart.lsr, LSR_BI) = 0
    /\ BitAnd(uart.iir, 15) # IIR_RLS

\* C31: no reachable UART state has LSR OE, PE, FE or BI set, and IIR never
\* identifies Receiver-Line-Status; a byte injected through
\* serial_bus_device_write_data while Data Ready is still set replaces RBR
\* and leaves Overrun Error clear.
C31_NoLineStatusErrors ==
    /\ \A u \in SerialPortID : NoLineStatusError(com[u])
    /\ [][/\ \A u \in SerialPortID : NoLineStatusError(com'[u])
          /\ (op'[1] = "serial_bus_device_write_data"
              /\ BitAnd(com[op'[2]].lsr, LSR_DR) # 0) =>
                 /\ com'[op'[2]].rbr = op'[3]
                 /\ BitAnd(com'[op'[2]].lsr, LSR_DR) # 0
                 /\ BitAnd(com'[op'[2]].lsr, LSR_OE) = 0
       ]_vars

\* a byte has arrived with the line-status interrupt enabled, and IIR
\* identifies Received-Data-Available
C31_Witness ==
    \E u \in SerialPortID :
        /\ op[1] = "serial_bus_device_write_data" /\ op[2] = u
        /\ com[u].rbr = op[3]
        /\ BitAnd(com[u].ier, 4) # 0
        /\ com[u].lsr = BitOr(LSR_DR, BitOr(LSR_THRE, LSR_TEMT))
        /\ BitAnd(com[u].iir, 15) = IIR_RDA

(***************************************************************************)
(* The ECP FIFO register as the guest sees it (SpecEcr).                   *)
(***************************************************************************)
IsEcpFifoAccess(o, kind) ==
    o[1] = kind /\ o[2] \in {LPT1_ECP_BASE, LPT2_ECP_BASE}

FifoEmptyNotFull(v) ==
    BitAnd(v, ECR_FIFO_EMPTY) # 0 /\ BitAnd(v, ECR_FIFO_FULL) = 0

\* C32: after every completed superio_write or superio_read the FIFO of
\* both parallel ports holds nothing.  A write of byte b to the ECP FIFO
\* register hands b to the attached device's on_write exactly once, leaves b
\* in the data register and the FIFO empty; every ECR read shows empty = 1
\* and full = 0; every read of the ECP FIFO register returns 0 and changes
\* no state.
C32_FifoEmptyBetweenAccesses ==
    /\ \A pp \in ParallelPortID : lpt[pp].fifo_count = 0
    /\ [][/\ \A pp \in ParallelPortID :
                lpt'[pp].fifo_count = 0 /\ FifoEmptyNotFull(lpt'[pp].ecr)
          /\ IsEcpFifoAccess(op', "write") =>
                LET pp == EcpIndex(op'[2])
                IN /\ lpt'[pp].data = op'[3]
                   /\ Delivered(calls', pp) =
                         (IF pbus[pp].has_device # 0 /\ pbus[pp].device.on_write
                          THEN <<op'[3]>> ELSE <<>>)
                   /\ Delivered(calls', 1 - pp) = <<>>
          /\ IsEcrAccess(op', "read") => FifoEmptyNotFull(ret')
          /\ IsEcpFifoAccess(op', "read") =>
                /\ ret' = 0
                /\ <<super_type, configmode, configreg, configregs665,
                     configregs672, gp_index, gp_regs, lpt, com, pbus, sbus,
                     iomd, printer>>' =
                   <<super_type, configmode, configreg, configregs665,
                     configregs672, gp_index, gp_regs, lpt, com, pbus, sbus,
                     iomd, printer>>
       ]_vars

\* the second byte written to the FIFO register of a port with the printer
\* attached has been delivered and is in the data register
C32_Witness ==
    \E base \in {LPT1_ECP_BASE, LPT2_ECP_BASE} :
        LET pp == EcpIndex(base)
        IN /\ op = <<"write", base, 66>>
           /\ pbus[pp].has_device # 0
           /\ Delivered(calls, pp) = <<66>>
           /\ lpt[pp].data = 66
           /\ lpt[pp].fifo_tail = 2
           /\ lpt[pp].fifo_count = 0

(***************************************************************************)
(* SpecSpp: the guest writes and reads all eight registers of a parallel   *)
(* port and its ECR and Config-A registers, with any device attached or    *)
(* none, and may start the configuration-entry sequence.  A run uses one   *)
(* parallel port at a time.                                                *)
(***************************************************************************)
\* FIFO mode; ECP mode with the interrupt and service bits; EPP mode
SppEcrBytes == {64, 116, 128}
\* nInit alone, and nInit with the strobe
SppCtrlBytes == {4, 5}
SppDataBytes == {65}
SppIgnoredBytes == {90}
SppIgnoredOffsets == {1, 3, 4, 5, 6, 7}
SppReadOffsets == {0, 3, 4, 5, 6, 7}

InitSpp == InitFrom(PowerOn(SuperIOType_FDC37C665GT))

SppAttach ==
    \E port \in ParallelPortID, d \in ParallelDevices :
        OtherIdle(port) /\ ParallelAttach(port, d)

SppEcrWrite ==
    \E base \in {LPT1_ECP_BASE, LPT2_ECP_BASE}, v \in SppEcrBytes :
        OtherIdle(EcpIndex(base)) /\ GuestWrite(base + 2, v, FALSE)

SppConfigAWrite ==
    \E base \in {LPT1_ECP_BASE, LPT2_ECP_BASE}, v \in SppIgnoredBytes :
        OtherIdle(EcpIndex(base)) /\ GuestWrite(base + 1, v, FALSE)

SppDataWrite ==
    \E base \in {LPT1_BASE, LPT2_BASE}, v \in SppDataBytes :
        OtherIdle(PortIndex(base)) /\ GuestWrite(base, v, FALSE)

SppCtrlWrite ==
    \E base \in {LPT1_BASE, LPT2_BASE}, v \in SppCtrlBytes :
        OtherIdle(PortIndex(base)) /\ GuestWrite(base + 2, v, FALSE)

SppIgnoredWrite ==
    \E base \in {LPT1_BASE, LPT2_BASE}, off \in SppIgnoredOffsets :
        \E v \in SppIgnoredBytes :
            OtherIdle(PortIndex(base)) /\ GuestWrite(base + off, v, FALSE)

SppRead ==
    \E base \in {LPT1_BASE, LPT2_BASE}, off \in SppReadOffsets :
        OtherIdle(PortIndex(base)) /\ GuestRead(base + off, 0)

SppEcpRead ==
    \E base \in {LPT1_ECP_BASE, LPT2_ECP_BASE}, off \in {1, 2} :
        OtherIdle(EcpIndex(base)) /\ GuestRead(base + off, 0)

SppConfigEntry == GuestWrite(CONFIG_INDEX_PORT, 85, FALSE)

NextSpp ==
    \/ SppAttach \/ SppEcrWrite \/ SppConfigAWrite \/ SppDataWrite \/ SppCtrlWrite
    \/ SppIgnoredWrite \/ SppRead \/ SppEcpRead \/ SppConfigEntry

SpecSpp == InitSpp /\ [][NextSpp]_vars

EcrMode(ecr) == BitAnd(Shr(ecr, ECR_MODE_SHIFT), 7)

\* o is a guest access of the given kind to one of the offsets offs of a
\* parallel port's base window
IsParAccess(o, kind, offs) ==
    /\ o[1] = kind
    /\ \E base \in {LPT1_BASE, LPT2_BASE} : \E off \in offs : o[2] = base + off

IsConfigAAccess(o, kind) ==
    o[1] = kind /\ o[2] \in {LPT1_ECP_BASE + 1, LPT2_ECP_BASE + 1}

\* C33: the mode field of both ports is SPP in every state.  With the chip
\* outside the configuration sequence, a guest write to the data register
\* stores the byte in the engine's data register and in the bus's data latch
\* and does nothing else: the FIFO is not touched and no callback is made;
\* guest writes to offsets 1 and 3-7 and to Config-A change no state.  Reads
\* of offsets 3-7 return 0xFF and reads of Config-A return 0x00.
C33_SppDataWriteOnlyLatches ==
    [][/\ \A pp \in ParallelPortID : EcrMode(lpt'[pp].ecr) = PP_MODE_SPP
       /\ (IsParAccess(op', "write", {0}) /\ configmode = SUPERIO_MODE_NORMAL) =>
             LET pp == PortIndex(op'[2])
             IN /\ lpt' = [lpt EXCEPT ![pp].data = op'[3]]
                /\ pbus' = [pbus EXCEPT ![pp].data = op'[3]]
                /\ calls' = <<>>
                /\ <<super_type, configmode, configreg, configregs665,
                     configregs672, gp_index, gp_regs, com, sbus, iomd, printer>>' =
                   <<super_type, configmode, configreg, configregs665,
                     configregs672, gp_index, gp_regs, com, sbus, iomd, printer>>
       /\ ((IsParAccess(op', "write", {1, 3, 4, 5, 6, 7})
            \/ IsConfigAAccess(op', "write"))
           /\ configmode = SUPERIO_MODE_NORMAL) =>
             /\ calls' = <<>>
             /\ <<super_type, configmode, configreg, configregs665,
                  configregs672, gp_index, gp_regs, lpt, com, pbus, sbus, iomd,
                  printer>>' =
                <<super_type, configmode, configreg, configregs665,
                  configregs672, gp_index, gp_regs, lpt, com, pbus, sbus, iomd,
                  printer>>
       /\ IsParAccess(op', "read", {3, 4, 5, 6, 7}) => ret' = 255
       /\ IsConfigAAccess(op', "read") => ret' = 0
      ]_vars

\* a data write made with the strobe bit set and FIFO mode requested in the
\* ECR has latched the byte and reached no callback
C33_Witness ==
    \E base \in {LPT1_BASE, LPT2_BASE} :
        LET pp == PortIndex(base)
        IN /\ op = <<"write", base, 65>>
           /\ configmode = SUPERIO_MODE_NORMAL
           /\ pbus[pp].has_device # 0
           /\ BitAnd(lpt[pp].control, PP_CTRL_STROBE) # 0
           /\ lpt[pp].data = 65 /\ pbus[pp].data = 65
           /\ lpt[pp].fifo_tail = 0
           /\ calls = <<>>

(***************************************************************************)
(* SpecModem: the device side of a serial port changes the modem status    *)
(* lines and injects bytes while the guest programs IER and FCR and reads  *)
(* RBR, IIR and MSR.  A run uses one UART at a time.                       *)
(***************************************************************************)
\* CTS; CTS with the low nibble set; CTS, DSR and DCD
ModemLineBytes == {16, 31, 176}
\* none; modem status alone; with RDA; with THRE
ModemIerBytes == {0, 8, 9, 10}
ModemReadOffsets == {UART_THR, UART_FCR, UART_MSR}

InitModem == InitFrom(PowerOn(SuperIOType_FDC37C665GT))

ModemAttach ==
    \E u \in SerialPortID : OtherUartIdle(u) /\ SerialAttach(u, modem_device)

ModemStatus ==
    \E u \in SerialPortID, st \in ModemLineBytes :
        OtherUartIdle(u) /\ SerialDeviceStatus(u, st)

ModemRx ==
    \E u \in SerialPortID, b \in RxBytes :
        OtherUartIdle(u) /\ SerialDeviceWriteData(u, b)

ModemIerWrite ==
    \E base \in {COM1_BASE, COM2_BASE}, v \in ModemIerBytes :
        OtherUartIdle(UartIndex(base)) /\ GuestWrite(base + UART_IER, v, FALSE)

ModemFcrWrite ==
    \E base \in {COM1_BASE, COM2_BASE}, v \in FcrBytes :
        OtherUartIdle(UartIndex(base)) /\ GuestWrite(base + UART_FCR, v, FALSE)

ModemRead ==
    \E base \in {COM1_BASE, COM2_BASE}, off \in ModemReadOffsets :
        OtherUartIdle(UartIndex(base)) /\ GuestRead(base + off, 0)

NextModem ==
    \/ ModemAttach \/ ModemStatus \/ ModemRx \/ ModemIerWrite \/ ModemFcrWrite
    \/ ModemRead

SpecModem == InitModem /\ [][NextModem]_vars

\* bit k of the byte v
BitOf(v, k) == (v \div (2 ^ k)) % 2

\* the UART has an enabled interrupt source of higher priority than the
\* modem status
HigherThanModem(uart) ==
    \/ BitOf(uart.ier, 2) = 1 /\ BitAnd(uart.lsr, 30) # 0
    \/ BitOf(uart.ier, 0) = 1 /\ BitOf(uart.lsr, 0) = 1
    \/ BitOf(uart.ier, 1) = 1 /\ BitOf(uart.lsr, 5) = 1

\* C34: after serial_bus_device_status(port, s) the MSR high nibble is
\* s & 0xF0 and delta bit k (k = 0..3) is set exactly when it was set before
\* the call or bit k+4 of s differs from bit k+4 of the MSR before the call;
\* IIR is recomputed in the call: with a delta bit set, IER bit 3 set and no
\* higher-priority source pending it identifies Modem-Status (0x00, with
\* the FIFO bits when the FIFO is enabled).
C34_ModemStatusDeltas ==
    [][op'[1] = "serial_bus_device_status" =>
          LET u == op'[2]
              s == op'[3]
              old == com[u].msr
              new == com'[u].msr
          IN /\ new \div 16 = s \div 16
             /\ \A k \in 0..3 :
                   (BitOf(new, k) = 1) <=>
                      (BitOf(old, k) = 1 \/ BitOf(s, k + 4) # BitOf(old, k + 4))
             /\ (new % 16 # 0 /\ BitOf(com'[u].ier, 3) = 1
                 /\ ~HigherThanModem(com'[u])) =>
                   com'[u].iir = (IF com'[u].fifo_enabled # 0 THEN 192 ELSE 0)
      ]_vars

\* a second status change has added delta bits to those of the first, and
\* IIR identifies Modem-Status
C34_Witness ==
    \E u \in SerialPortID :
        /\ op = <<"serial_bus_device_status", u, 31>>
        /\ com[u].msr = 27
        /\ com[u].ier = 8
        /\ com[u].iir = 0

(***************************************************************************)
(* The FDC behind the configuration index port (SpecCfg).                  *)
(***************************************************************************)
\* the fdc_write calls among the events e
FdcWrites(e) == SelectSeq(e, LAMBDA c : c[1] = "fdc_write")

\* C35: outside Configuration mode a write of 0x55 to port 0x3F0 only moves
\* the configuration state machine and makes no fdc_write, and a write of
\* any other byte to port 0x3F0 makes exactly one fdc_write, with that port
\* and byte; in Configuration mode no write to 0x3F0-0x3F7 makes an
\* fdc_write.
C35_FdcBehindConfigPort ==
    [][(op'[1] = "write" /\ op'[2] \in 1008..1015) =>
          IF configmode = SUPERIO_MODE_CONFIGURATION
          THEN FdcWrites(calls') = <<>>
          ELSE IF op'[2] = CONFIG_INDEX_PORT /\ op'[3] = 85
          THEN /\ calls' = <<>>
               /\ configmode' # configmode
               /\ <<super_type, configreg, configregs665, configregs672,
                    gp_index, gp_regs, lpt, com, pbus, sbus, iomd, printer>>' =
                  <<super_type, configreg, configregs665, configregs672,
                    gp_index, gp_regs, lpt, com, pbus, sbus, iomd, printer>>
          ELSE op'[2] = CONFIG_INDEX_PORT =>
                  calls' = << <<"fdc_write", CONFIG_INDEX_PORT, op'[3]>> >>
      ]_vars

\* the exit byte 0xAA written to port 0x3F0 of a 672 that is not in
\* Configuration mode has gone to the FDC
C35_Witness ==
    /\ op = <<"write", CONFIG_INDEX_PORT, 170>>
    /\ super_type = SuperIOType_FDC37C672
    /\ configmode = SUPERIO_MODE_NORMAL
    /\ calls = << <<"fdc_write", CONFIG_INDEX_PORT, 170>> >>

(***************************************************************************)
(* SpecCtrl: the guest writes the data and control registers of a parallel *)
(* port and reads its status register, with the printer or a device that   *)
(* never acknowledges attached; the chip may be reset.  A run uses one     *)
(* parallel port at a time.                                                *)
(***************************************************************************)
\* nInit with each combination of the strobe and IRQ-enable bits
CtlCtrlBytes == {4, 5, 20, 21}
CtlDataBytes == {65}

InitCtrl == InitFrom(PowerOn(SuperIOType_FDC37C665GT))

CtlAttach ==
    \E port \in ParallelPortID, d \in {printer_device, busy_device} :
        OtherIdle(port) /\ ParallelAttach(port, d)

CtlDataWrite ==
    \E base \in {LPT1_BASE, LPT2_BASE}, v \in CtlDataBytes :
        OtherIdle(PortIndex(base)) /\ GuestWrite(base, v, FALSE)

CtlCtrlWrite ==
    \E base \in {LPT1_BASE, LPT2_BASE}, v \in CtlCtrlBytes :
        OtherIdle(PortIndex(base)) /\ GuestWrite(base + 2, v, FALSE)

CtlStatusRead ==
    \E base \in {LPT1_BASE, LPT2_BASE} :
        OtherIdle(PortIndex(base)) /\ GuestRead(base + 1, 0)

CtlReset == SuperioReset(SuperIOType_FDC37C665GT)

NextCtrl ==
    CtlAttach \/ CtlDataWrite \/ CtlCtrlWrite \/ CtlStatusRead \/ CtlReset

SpecCtrl == InitCtrl /\ [][NextCtrl]_vars

\* the parallel_bus_device_ack calls for the port among the events e
AcksOn(e, port) ==
    SelectSeq(e, LAMBDA c : c[1] = "device_ack" /\ c[2] = port)

IrqEnableOf(ctrl) == (ctrl \div 16) % 2

\* C36: when a control-register write finds the strobe bit set in the
\* control register, clears it and changes the IRQ-enable bit, every ACK the
\* device raises during the write is handled with the IRQ-enable value of
\* the previous control write (the value the register held): as an
\* interrupt if it was set, as the 5-read latch (of which the handshake's
\* status refresh takes one) if it was clear; when the write returns the
\* bus's IRQ-enable flag has the new value.
C36_AckUsesPreviousIrqEnable ==
    [][LET pp == PortIndex(op'[2])
           was == IrqEnableOf(lpt[pp].control)
           acks == AcksOn(calls', pp)
       IN (/\ IsParWrite(op', 2)
           /\ lpt[pp].control % 2 = 1 /\ op'[3] % 2 = 0
           /\ IrqEnableOf(op'[3]) # was) =>
             /\ \A i \in DOMAIN acks : acks[i][3] = was
             /\ (op[1] = "write" /\ op[2] = op'[2]) => was = IrqEnableOf(op[3])
             /\ pbus'[pp].irq_enabled = IrqEnableOf(op'[3])
             /\ acks # <<>> =>
                   IF was = 1
                   THEN /\ iomd'.irqa_parallel
                        /\ pbus'[pp].ack_pending =
                              (IF pbus[pp].ack_pending > 0
                               THEN pbus[pp].ack_pending - 1 ELSE 0)
                   ELSE /\ pbus'[pp].ack_pending = 4
                        /\ iomd'.irqa_parallel = iomd.irqa_parallel
      ]_vars

\* the write that cleared the strobe also enabled the interrupt: the
\* printer's ACK was latched for polling and no interrupt was raised
C36_Witness ==
    \E base \in {LPT1_BASE, LPT2_BASE} :
        LET pp == PortIndex(base)
        IN /\ op = <<"write", base + 2, 20>>
           /\ AcksOn(calls, pp) = << <<"device_ack", pp, 0>> >>
           /\ pbus[pp].irq_enabled = 1
           /\ pbus[pp].ack_pending = 4
           /\ ~iomd.irqa_parallel

(***************************************************************************)
(* SpecSetCtrl: the bus API of a parallel port driven directly: devices    *)
(* are attached and detached, a data byte is latched, and                  *)
(* parallel_bus_set_ctrl is called with any control byte.  A run uses one  *)
(* parallel port at a time.                                                *)
(***************************************************************************)
\* each combination of strobe, nInit and IRQ-enable, and a byte with the
\* other bits set as well
SetCtrlBytes == {0, 1, 4, 5, 16, 17, 20, 21, 234}
SetDataBytes == {65}

ParallelSetCtrl(port, ctrl) ==
    Commit(parallel_bus_set_ctrl(World, port, ctrl),
           <<"parallel_bus_set_ctrl", port, ctrl>>, 0, FALSE)

InitSetCtrl == InitFrom(PowerOn(SuperIOType_FDC37C665GT))

SetAttach ==
    \E port \in ParallelPortID, d \in ParallelDevices :
        OtherIdle(port) /\ ParallelAttach(port, d)

SetDetach == \E port \in ParallelPortID : OtherIdle(port) /\ ParallelDetach(port)

SetWriteData ==
    \E port \in ParallelPortID, b \in SetDataBytes :
        OtherIdle(port) /\ ParallelWriteData(port, b)

SetCtrl ==
    \E port \in ParallelPortID, ctrl \in SetCtrlBytes :
        OtherIdle(port) /\ ParallelSetCtrl(port, ctrl)

NextSetCtrl == SetAttach \/ SetDetach \/ SetWriteData \/ SetCtrl

SpecSetCtrl == InitSetCtrl /\ [][NextSetCtrl]_vars

\* the callbacks made to the device on the port among the events e
CallbacksOn(e, port) ==
    SelectSeq(e, LAMBDA c : c[1] \in {"on_write", "on_reset", "on_ctrl"}
                            /\ c[2] = port)

\* C37: a parallel_bus_set_ctrl(port, ctrl) call makes, in this order: one
\* on_write with the latched byte if the call takes an active strobe to
\* inactive, one on_reset if bit 0x04 (nInit) of ctrl is 0, whatever it was
\* before, and one on_ctrl with the whole ctrl byte; each only to an
\* attached device that has the callback, and nothing else.  The stored
\* control byte and IRQ-enable flag are assigned after the callbacks: an
\* ACK raised inside on_write is handled with the flag from before the
\* call, and on return the port holds ctrl and its IRQ-enable bit.
C37_SetCtrlCallbackOrder ==
    [][op'[1] = "parallel_bus_set_ctrl" =>
          LET port == op'[2]
              ctrl == op'[3]
              p == pbus[port]
              has == p.has_device # 0
              edge == /\ (p.control % 2) # (ctrl % 2)
                      /\ p.strobe_active # 0 /\ ctrl % 2 = 0
              acks == AcksOn(calls', port)
          IN /\ CallbacksOn(calls', port) =
                   (IF has /\ p.device.on_write /\ edge
                    THEN << <<"on_write", port, p.data>> >> ELSE <<>>)
                   \o (IF has /\ p.device.on_reset /\ (ctrl \div 4) % 2 = 0
                       THEN << <<"on_reset", port>> >> ELSE <<>>)
                   \o (IF has /\ p.device.on_ctrl
                       THEN << <<"on_ctrl", port, ctrl>> >> ELSE <<>>)
             /\ CallbacksOn(calls', 1 - port) = <<>>
             /\ \A i \in DOMAIN acks : acks[i][3] = p.irq_enabled
             /\ pbus'[port].control = ctrl
             /\ pbus'[port].irq_enabled = IrqEnableOf(ctrl)
      ]_vars

\* a call that dropped the strobe with nInit already low and enabled the
\* interrupt made all three callbacks, and the printer's ACK was latched
C37_Witness ==
    \E port \in ParallelPortID :
        /\ op = <<"parallel_bus_set_ctrl", port, 16>>
        /\ CallbacksOn(calls, port) =
              << <<"on_write", port, 65>>, <<"on_reset", port>>,
                 <<"on_ctrl", port, 16>> >>
        /\ AcksOn(calls, port) = << <<"device_ack", port, 0>> >>
        /\ pbus[port].ack_pending = 5
        /\ pbus[port].irq_enabled = 1

(***************************************************************************)
(* SpecFiq: both UARTs in use at once.  Bytes arrive on either port, the   *)
(* guest writes offset 1 of either UART and the LCR of COM1, reads RBR and *)
(* IIR of either UART, and the chip may be reset.                          *)
(***************************************************************************)
COM1_IER_PORT == 1017     \* 0x3F9
COM1_IIR_PORT == 1018     \* 0x3FA

\* RDA enable; THRE enable
FiqIerBytes == {1, 2}
\* divisor latch closed and open
FiqLcrBytes == {0, 128}
FiqReadOffsets == {UART_THR, UART_FCR}

InitFiq == InitFrom(PowerOn(SuperIOType_FDC37C665GT))

FiqRx ==
    \E u \in SerialPortID, b \in RxBytes : SerialDeviceWriteData(u, b)

FiqIerWrite ==
    \E base \in {COM1_BASE, COM2_BASE}, v \in FiqIerBytes :
        GuestWrite(base + UART_IER, v, FALSE)

FiqLcrWrite ==
    \E v \in FiqLcrBytes : GuestWrite(COM1_BASE + UART_LCR, v, FALSE)

FiqRead ==
    \E base \in {COM1_BASE, COM2_BASE}, off \in FiqReadOffsets :
        GuestRead(base + off, 0)

FiqReset == SuperioReset(SuperIOType_FDC37C665GT)

NextFiq == FiqRx \/ FiqIerWrite \/ FiqLcrWrite \/ FiqRead \/ FiqReset

SpecFiq == InitFiq /\ [][NextFiq]_vars

\* the operation o is a byte received on COM1 while IER bit 0 of uart is set
IsCom1RxEvent(o, uart) ==
    /\ o[1] = "serial_bus_device_write_data" /\ o[2] = SERIAL_PORT_COM1
    /\ uart.ier % 2 = 1

\* the operation o is a guest write to port 0x3F9 of a byte with bit 1 set
IsCom1Offset1Event(o) ==
    o[1] = "write" /\ o[2] = COM1_IER_PORT /\ (o[3] \div 2) % 2 = 1

\* C38: the serial FIQ status bit goes from clear to set only in a receive
\* on COM1 with IER bit 0 set or in a guest write to port 0x3F9 of a byte
\* with bit 1 set, and each of these leaves it set; no operation on COM2
\* changes it.  A guest read of port 0x3FA leaves the bit clear whatever the
\* UART holds, also with Data Ready set and Received-Data-Available still
\* identified by IIR; nothing else clears the bit, so it stays clear until
\* the next of the two COM1 events.
C38_SerialFiqOnlyFromCom1 ==
    [][LET event == IsCom1RxEvent(op', com[SERIAL_PORT_COM1])
                    \/ IsCom1Offset1Event(op')
       IN /\ (~iomd.fiq_serial /\ iomd'.fiq_serial) => event
          /\ event => iomd'.fiq_serial
          /\ (op'[1] = "read" /\ op'[2] = COM1_IIR_PORT) => ~iomd'.fiq_serial
          /\ (iomd.fiq_serial /\ ~iomd'.fiq_serial) =>
                (op'[1] = "read" /\ op'[2] = COM1_IIR_PORT)
          /\ ((op'[1] = "serial_bus_device_write_data" /\ op'[2] = SERIAL_PORT_COM2)
              \/ (op'[1] \in {"write", "read"}
                  /\ op'[2] \in COM2_BASE..(COM2_BASE + 7))) =>
                iomd'.fiq_serial = iomd.fiq_serial
      ]_vars

\* an IIR read of COM1 returned Received-Data-Available and left the FIQ
\* bit clear with the byte still unread
C38_Witness ==
    /\ op = <<"read", COM1_IIR_PORT>>
    /\ ret = IIR_RDA
    /\ com[SERIAL_PORT_COM1].lsr % 2 = 1
    /\ com[SERIAL_PORT_COM1].iir = IIR_RDA
    /\ com[SERIAL_PORT_COM2].iir = IIR_RDA
    /\ ~iomd.fiq_serial

(***************************************************************************)
(* SpecIir: uart_update_iir as a function of the UART's registers.  One    *)
(* UART starts with IER, LSR, MSR and the FIFO-enabled flag drawn from the *)
(* sets below (FCR holding the byte that set the flag) and a stale IIR;    *)
(* uart_update_iir is applied to it, and the guest may write FCR.          *)
(***************************************************************************)
IirIerValues == 0..15
\* no bit; DR, OE, BI and THRE alone; the idle value THRE|TEMT alone, with
\* DR, with PE, with FE, and with DR and OE
IirLsrValues == {0, 1, 2, 16, 32, 96, 97, 100, 104, 99}
\* no delta; one delta bit; status lines without and with deltas
IirMsrValues == {0, 8, 176, 187}
IirFlagValues == {0, 1}
\* FIFO off, on, and on with the two FIFO-clear bits
IirFcrBytes == {0, 1, 7}

UartUpdateIir(u) ==
    Commit(uart_update_iir(World, u), <<"uart_update_iir", u>>, 0, FALSE)

InitIir ==
    \E u \in SerialPortID, ier \in IirIerValues, lsr \in IirLsrValues,
       msr \in IirMsrValues, flag \in IirFlagValues :
        InitFrom([PowerOn(SuperIOType_FDC37C665GT) EXCEPT
                     !.com[u].ier = ier, !.com[u].lsr = lsr, !.com[u].msr = msr,
                     !.com[u].fifo_enabled = flag, !.com[u].fcr = flag])

IirUpdate == \E u \in SerialPortID : OtherUartIdle(u) /\ UartUpdateIir(u)

IirFcrWrite ==
    \E base \in {COM1_BASE, COM2_BASE}, v \in IirFcrBytes :
        OtherUartIdle(UartIndex(base)) /\ GuestWrite(base + UART_FCR, v, FALSE)

NextIir == IirUpdate \/ IirFcrWrite

SpecIir == InitIir /\ [][NextIir]_vars

\* the identification the claim gives for the registers of uart
IirPriority(uart) ==
    IF BitOf(uart.ier, 2) = 1
       /\ (BitOf(uart.lsr, 1) = 1 \/ BitOf(uart.lsr, 2) = 1
           \/ BitOf(uart.lsr, 3) = 1 \/ BitOf(uart.lsr, 4) = 1)
    THEN 6
    ELSE IF BitOf(uart.ier, 0) = 1 /\ BitOf(uart.lsr, 0) = 1 THEN 4
    ELSE IF BitOf(uart.ier, 1) = 1 /\ BitOf(uart.lsr, 5) = 1 THEN 2
    ELSE IF BitOf(uart.ier, 3) = 1 /\ uart.msr % 16 # 0 THEN 0
    ELSE 1

\* C39: uart_update_iir sets IIR to 0x06 if IER bit 2 and any of LSR
\* OE/PE/FE/BI are set, else 0x04 if IER bit 0 and LSR Data Ready, else 0x02
\* if IER bit 1 and LSR THRE, else 0x00 if IER bit 3 and any MSR delta bit,
\* else 0x01, plus 0xC0 exactly when bit 0 of the byte last written to FCR
\* was 1; it changes nothing but IIR.  An FCR write, which calls it, leaves
\* IIR at that value for the byte it has just written.
C39_IirPriorityEncoding ==
    [][/\ op'[1] = "uart_update_iir" =>
             LET u == op'[2]
             IN /\ com'[u].iir = IirPriority(com[u]) + 192 * (com[u].fcr % 2)
                /\ com' = [com EXCEPT ![u].iir = com'[u].iir]
                /\ <<super_type, configmode, configreg, configregs665,
                     configregs672, gp_index, gp_regs, lpt, pbus, sbus, iomd,
                     printer>>' =
                   <<super_type, configmode, configreg, configregs665,
                     configregs672, gp_index, gp_regs, lpt, pbus, sbus, iomd,
                     printer>>
       /\ (op'[1] = "write"
           /\ op'[2] \in {COM1_BASE + UART_FCR, COM2_BASE + UART_FCR}) =>
             LET u == UartIndex(op'[2])
             IN /\ com'[u].iir = IirPriority(com[u]) + 192 * (op'[3] % 2)
                /\ com'[u].fcr = op'[3]
      ]_vars

\* Receiver-Line-Status was identified ahead of a pending received byte,
\* THRE and a modem delta, with the FIFO enabled
C39_Witness ==
    \E u \in SerialPortID :
        /\ op = <<"uart_update_iir", u>>
        /\ com[u].ier = 15 /\ com[u].lsr = 99 /\ com[u].msr = 187
        /\ com[u].fifo_enabled = 1
        /\ com[u].iir = 198

====
